---- MODULE Spec2Model ----
(***************************************************************************)
(* A model of the Inertia adapter of fastapi-inertia                       *)
(* (src/inertia/inertia.py, templating.py, utils.py, config.py).           *)
(*                                                                         *)
(* One adapter (class Inertia) is built per request by the dependency      *)
(* returned by inertia_dependency_factory; the route handler then calls    *)
(* share / flash / render on it.  The process-wide state is the session    *)
(* store, the lru_cache of _read_manifest_file and the shared httpx        *)
(* client.  Every handler operation is one action: the code runs on an     *)
(* event loop and the only suspension point inside the adapter is the      *)
(* `await client.post(...)` of _render_ssr, which splits render in two.    *)
(*                                                                         *)
(* A second specification, SpecMount, follows the text of one classic      *)
(* mount element character by character, from json.dumps to the reader of  *)
(* the data-page attribute.                                                *)
(*                                                                         *)
(* Three more specifications run the same actions on other inputs,         *)
(* SpecProps on prop maps with an empty-string key and nested dicts,       *)
(* SpecCache on a process that reads many manifest paths while the         *)
(* manifest on disk changes, SpecTwo on two requests served side by side.  *)
(* SpecResolve follows one call of _build_props on its own.                *)
(*                                                                         *)
(* Strings are TLA+ strings; the value of X-Inertia-Partial-Data is kept   *)
(* as a sequence of atoms (an atom is a comma or a comma-free chunk) so    *)
(* that str.split(",") is computed.  JSON values carry a type tag (jt).    *)
(***************************************************************************)
EXTENDS Integers, Sequences, FiniteSets, TLC

VARIABLES
    cfg,            \* the InertiaConfig shared by all requests
    manifestFile,   \* what is on disk at cfg.manifest_json_path
    manifestReads,  \* history: how often the file at cfg.manifest_json_path
                    \* was opened
    manifestUse,    \* history: what the last read of that file returned, how
                    \* many adapters were constructed for other manifest
                    \* paths since the last one constructed for this path,
                    \* and which other path was read last
    manifestCache,  \* lru_cache of _read_manifest_file: the cached calls, the
                    \* least recently used first
    httpClient,     \* module global _ASYNC_HTTPX_CLIENT and its atexit hook
    process,        \* "running", or "exited" once the interpreter has shut down
    session,        \* request.session: the session store the requests share
    adapters,       \* one Inertia instance (and its request) per slot
    flashed,        \* history: the flash(...) calls made since the last pop of
                    \* the session's messages, in call order
    resolve,        \* one call of _build_props followed on its own: the prop
                    \* map and the request it is given, what it returns
    mount           \* the classic mount element followed character by
                    \* character: a prop value, its page JSON, the markup
                    \* around it, and what a reader of the markup gets back

vars ==
    <<cfg, manifestFile, manifestReads, manifestUse, manifestCache, httpClient, process, session,
      adapters, flashed, resolve, mount>>

\* ------------------------------------------------------------------ bounds
\* share(...) calls per request
MaxShare == 2
\* messages held by the session at one time
MaxFlash == 2
\* times the manifest file is opened in one process lifetime
MaxReads == 2
\* other manifest paths read in one process lifetime
MaxPaths == 128

\* ------------------------------------------------------------ small helpers
EmptyMap == [k \in {} |-> ""]

Range(s) == {s[n] : n \in DOMAIN s}

\* dict.update
Update(f, g) ==
    [k \in (DOMAIN f) \cup (DOMAIN g) |-> IF k \in DOMAIN g THEN g[k] ELSE f[k]]

\* dict.pop(key) on the remaining mapping
Without(f, key) == [k \in (DOMAIN f) \ {key} |-> f[k]]

\* JSON values
JStr(s) == [jt |-> "str", v |-> s]
JList(s) == [jt |-> "list", v |-> s]
JMap(f) == [jt |-> "map", v |-> f]

\* --------------------------------------------------------------- prop values
\* a plain, already JSON-able value
Plain(s) == [kind |-> "value", val |-> JStr(s)]
\* LazyProp(producer returning s)
Lazy(s) == [kind |-> "lazy", val |-> JStr(s)]
\* a callable that raises whenever it is invoked
Raising == [kind |-> "raising", val |-> JStr("")]
\* a callable that raises at its first invocation in a render and returns s afterwards
Flaky(s) == [kind |-> "flaky", val |-> JStr(s)]
\* a pydantic BaseModel instance with the given field values
Model(fields) == [kind |-> "model", val |-> fields]
\* a dict whose values are prop values in their turn
Dict(items) == [kind |-> "dict", val |-> items]
\* a list whose items are prop values in their turn
List(items) == [kind |-> "list", val |-> items]

\* an object as it is, nothing in it called or converted: a callable and a
\* BaseModel are objects still
RECURSIVE AsIs(_)
AsIs(v) ==
    IF v.kind = "dict" THEN JMap([k \in DOMAIN v.val |-> AsIs(v.val[k])])
    ELSE IF v.kind = "list" THEN JList([n \in DOMAIN v.val |-> AsIs(v.val[n])])
    ELSE IF v.kind = "value" THEN v.val
    ELSE [jt |-> "object", v |-> v]

\* a function (no LazyProp) returning s
Func(s) == [kind |-> "function", val |-> JStr(s)]
\* a function returning the object result as it is
Returning(result) == [kind |-> "function", val |-> AsIs(result)]

\* ------------------------------------------------------------ configuration
\* InertiaConfig (config.py): the dataclass declares no assets_prefix field,
\* so a config built by InertiaConfig(...) carries none (has_assets_prefix =
\* FALSE).  The class is neither frozen nor slotted: a config object carries
\* the attribute only if the application subclasses it or assigns it.
InertiaConfig(env, ssr, fm, fe, hasPrefix, prefix) ==
    [ environment |-> env,
      version |-> "1.0",
      manifest_json_path |-> "dist/.vite/manifest.json",
      root_directory |-> "src",
      entrypoint_filename |-> "main.js",
      dev_url |-> "http://localhost:5173",
      ssr_url |-> "http://localhost:13714",
      ssr_enabled |-> ssr,
      is_react |-> FALSE,
      use_flash_messages |-> fm,
      use_flash_errors |-> fe,
      flash_message_key |-> "messages",
      flash_error_key |-> "errors",
      has_assets_prefix |-> hasPrefix,
      assets_prefix |-> prefix ]

\* the asset side of a deployment: <<has attribute, prefix, manifest on disk>>
Unreadable == [readable |-> FALSE, content |-> EmptyMap]

ManifestOf(content) == [readable |-> TRUE, content |-> content]

ChunkWithCss == [file |-> "assets/main-aBc123.js", css |-> <<"assets/main-xYz789.css">>]

ChunkNoCss == [file |-> "assets/main-aBc123.js"]

ManifestWithCss == ManifestOf([k \in {"src/main.js"} |-> ChunkWithCss])

ManifestNoCss == ManifestOf([k \in {"src/main.js"} |-> ChunkNoCss])

ManifestNoEntry == ManifestOf([k \in {"src/other.js"} |-> ChunkWithCss])

AssetSetups ==
    { <<FALSE, "", ManifestWithCss>>,
      <<TRUE, "", ManifestWithCss>>,
      <<TRUE, "custom-prefix", ManifestNoCss>>,
      <<TRUE, "", ManifestNoEntry>>,
      <<TRUE, "", Unreadable>> }

\* mutant: SSR alone does not select the manifest
IsBundled_ProductionOnly(c) == c.environment = "production"

\* the test of _set_inertia_files (inertia.py 158)
IsBundled(c) == c.environment = "production" \/ c.ssr_enabled

\* ------------------------------------------------------------------ requests
NoHeader == [has |-> FALSE, val |-> ""]

Header(v) == [has |-> TRUE, val |-> v]

NoPartialData == [has |-> FALSE, val |-> <<>>]

PartialData(atoms) == [has |-> TRUE, val |-> atoms]

\* the adapters alive at one time: requests are served one after the other
Adapters == {"r1"}

\* str(request.url) of the request a slot serves
UrlOf(i) == IF i = "r1" THEN "http://testserver/users" ELSE "http://testserver/"

VersionHeaders == {NoHeader, Header("1.0"), Header("0.9")}

\* <<X-Inertia-Partial-Data, X-Inertia-Partial-Component>>
PartialHeaders ==
    { <<NoPartialData, NoHeader>>,
      <<PartialData(<<"a">>), Header("Index")>>,
      <<PartialData(<<"a">>), NoHeader>>,
      <<PartialData(<<"b", ",", "messages">>), Header("Index")>> }

Components == {"", "Index"}

Request(i, inertia, ver, pd, pc) ==
    [ url |-> UrlOf(i),
      x_inertia |-> inertia,
      x_inertia_version |-> ver,
      x_inertia_partial_data |-> pd,
      x_inertia_partial_component |-> pc ]

\* the requests drawn: a first visit (no X-Inertia) carries no version header
\* or a stale one, a protocol request any of the three
Requests(i) ==
    { r \in { Request(i, x, ver, ph[1], ph[2]) :
                x \in {NoHeader, Header("true")}, ver \in VersionHeaders,
                ph \in PartialHeaders } :
        r.x_inertia.has \/ r.x_inertia_version # Header("1.0") }

\* ------------------------------------------------------------- adapter state
NoOutcome == [kind |-> "none"]

NoFiles == [css_files |-> <<>>, js_file |-> ""]

\* back() has not been called
NoBack == [called |-> FALSE, method |-> "", referer |-> NoHeader]

IdleAdapter ==
    [ pc |-> "idle",
      request |-> Request("r1", NoHeader, NoHeader, NoPartialData, NoHeader),
      component |-> "",
      props |-> EmptyMap,
      inertia_files |-> NoFiles,
      outcome |-> NoOutcome,
      \* history of this request, kept for the properties:
      constructed |-> FALSE, \* whether Inertia.__init__ returned
      consulted |-> FALSE,   \* whether Inertia.__init__ called _read_manifest_file
      shares |-> 0,          \* share(...) calls executed
      given |-> EmptyMap,    \* the props argument of the render call
      flashes |-> 0,         \* flash(...) calls executed
      renders |-> 0,         \* render(...) calls executed
      builds |-> 0,          \* _get_page_data() calls executed
      invoked |-> {},        \* the keys whose callable a build has called
      calls |-> EmptyMap,    \* how often the callable under each of these keys was called
      popped |-> FALSE,      \* whether render popped the session's messages
      pending |-> <<>>,      \* the flash calls not yet popped when render began
      posts |-> <<>>,        \* POSTs sent to the render service
      client |-> 0,          \* the AsyncClient instance _render_ssr was given (0: none)
      reply |-> [raises |-> FALSE, status |-> 0, json |-> EmptyMap],
                             \* what the render service answered (status 0: nothing yet)
      templates |-> 0,       \* TemplateResponse calls executed
      back |-> NoBack ]      \* the method and Referer header a back() call read

\* ------------------------------------------------------ request classification
\* Headers.get(name, default)
HeaderGet(h, default) == IF h.has THEN h.val ELSE default

\* str.split(",") over a sequence of atoms: acc holds the finished pieces, cur
\* the piece being read
RECURSIVE SplitComma(_, _, _)
SplitComma(atoms, cur, acc) ==
    IF atoms = <<>> THEN Append(acc, cur)
    ELSE IF Head(atoms) = "," THEN SplitComma(Tail(atoms), "", Append(acc, cur))
    ELSE SplitComma(Tail(atoms), cur \o Head(atoms), acc)

PartialKeys(req) == SplitComma(HeaderGet(req.x_inertia_partial_data, <<>>), "", <<>>)

IsInertiaRequest(req) == req.x_inertia.has

\* mutant: the comparison inverted
IsStale_Inverted(req, c) ==
    req.x_inertia_version.has /\ HeaderGet(req.x_inertia_version, c.version) = c.version

IsStale(req, c) == HeaderGet(req.x_inertia_version, c.version) # c.version

\* mutant: the partial-component header is not compared
IsAPartialRender_DataOnly(req, component) == req.x_inertia_partial_data.has

IsAPartialRender(req, component) ==
    /\ req.x_inertia_partial_data.has
    /\ HeaderGet(req.x_inertia_partial_component, "") = component

\* ------------------------------------------------------------ prop resolution
\* whether invoking v raises, at a page-data build that n builds of this render
\* call precede
ProducerRaises(v, n) == v.kind = "raising" \/ (v.kind = "flaky" /\ n = 0)

RECURSIVE DeepTransformCallables(_)

\* mutant: a BaseModel is passed on as it is
DeepTransformCallables_NoModelDump(v) == v.val

\* mutant: the items of a list are transformed as the values of a dict are
DeepTransformCallables_DescendsLists(v) ==
    IF v.kind = "dict"
    THEN JMap([k \in DOMAIN v.val |-> DeepTransformCallables(v.val[k])])
    ELSE IF v.kind = "list"
    THEN JList([n \in DOMAIN v.val |-> DeepTransformCallables(v.val[n])])
    ELSE IF v.kind \in {"lazy", "raising", "flaky", "function"} THEN v.val
    ELSE IF v.kind = "model" THEN JMap(v.val)
    ELSE AsIs(v)

\* _deep_transform_callables on one value that does not raise: the values of
\* a dict are transformed in their turn; a callable is called and what it
\* returns is the result; a BaseModel is dumped to its field mapping; another
\* value, a list included, is returned as it is
DeepTransformCallables(v) ==
    IF v.kind = "dict"
    THEN JMap([k \in DOMAIN v.val |-> DeepTransformCallables(v.val[k])])
    ELSE IF v.kind \in {"lazy", "raising", "flaky", "function"} THEN v.val
    ELSE IF v.kind = "model" THEN JMap(v.val)
    ELSE AsIs(v)

\* the callables _deep_transform_callables calls in v, each named by the
\* keys that lead to it
RECURSIVE InvokedPaths(_)
InvokedPaths(v) ==
    IF v.kind = "dict"
    THEN UNION { {<<k>> \o path : path \in InvokedPaths(v.val[k])} : k \in DOMAIN v.val }
    ELSE IF v.kind \in {"lazy", "raising", "flaky", "function"} THEN {<<>>}
    ELSE {}

\* mutant: the results are stored into the dict that was passed in
AfterDeepTransform_NoCopy(v) ==
    IF v.kind = "dict"
    THEN Dict([k \in DOMAIN v.val |->
                [kind |-> "value", val |-> DeepTransformCallables(v.val[k])]])
    ELSE v

\* the object a prop map holds under a key, once _deep_transform_callables has
\* returned: the results are stored into prop.copy() (inertia.py 196), the
\* dict that was passed in keeps its items
AfterDeepTransform(v) == v

\* mutant: LazyProp values are dropped on partial renders too
KeptKeys_PartialDropsLazy(props, req, component) ==
    { k \in DOMAIN props :
        /\ props[k].kind # "lazy"
        /\ IsAPartialRender(req, component) => k \in Range(PartialKeys(req)) }

\* mutant: LazyProp values are kept on full renders
KeptKeys_KeepsLazy(props, req, component) ==
    { k \in DOMAIN props :
        IsAPartialRender(req, component) => k \in Range(PartialKeys(req)) }

\* the keys _build_props keeps
KeptKeys(props, req, component) ==
    { k \in DOMAIN props :
        IF IsAPartialRender(req, component)
        THEN k \in Range(PartialKeys(req))
        ELSE props[k].kind # "lazy" }

\* callable(prop): a LazyProp and a function are callable, a plain value and
\* a BaseModel are not
IsCallable(v) == v.kind \in {"lazy", "raising", "flaky", "function"}

\* mutant: every callable of the prop map is called, kept or not
CalledKeys_BeforeFilter(props, kept) == {k \in DOMAIN props : IsCallable(props[k])}

\* the keys whose callable _deep_transform_callables calls: those of the
\* filtered copy, by top-level key; the calls made inside a nested dict are
\* not listed.  (A call that raises ends the transformation; no prop map
\* drawn here keeps a second callable beside one that raises.)
CalledKeys(props, kept) == {k \in kept : IsCallable(props[k])}

\* _build_props: [raised, props, called, paths (every callable called, by the
\* keys that lead to it), source (self._props after the call: keys are
\* deleted from a copy of it, and the objects it holds are those the callers
\* passed)]
BuildProps(props, req, component, n) ==
    LET kept == KeptKeys(props, req, component) IN
    IF \E k \in kept : ProducerRaises(props[k], n)
    THEN [ raised |-> TRUE, props |-> EmptyMap, called |-> CalledKeys(props, kept),
           paths |-> {}, source |-> props ]
    ELSE [ raised |-> FALSE,
           props |-> [k \in kept |-> DeepTransformCallables(props[k])],
           called |-> CalledKeys(props, kept),
           paths |-> UNION { {<<k>> \o path : path \in InvokedPaths(props[k])} : k \in kept },
           source |-> [k \in DOMAIN props |->
                        IF k \in kept THEN AfterDeepTransform(props[k]) ELSE props[k]] ]

PageObject(component, props, url, version) ==
    [component |-> component, props |-> props, url |-> url, version |-> version]

\* _get_page_data of adapter record a: [raised, called, source, page]
GetPageData(a, c) ==
    LET built == BuildProps(a.props, a.request, a.component, a.builds) IN
    [ raised |-> built.raised,
      called |-> built.called,
      source |-> built.source,
      page |-> PageObject(a.component, built.props, a.request.url, c.version) ]

\* ------------------------------------------------------------ asset resolution
\* posixpath.join("/", prefix, file) for a prefix and a file that do not start
\* with "/"
PosixJoinRoot(prefix, file) ==
    IF prefix = "" THEN "/" \o file ELSE "/" \o prefix \o "/" \o file

\* maxsize of functools.lru_cache when the decorator is given no argument
CacheMaxSize == 128

\* no call is cached
EmptyCache == <<>>

CacheEntry(path, manifest) == [path |-> path, manifest |-> manifest]

\* the cached calls other than the one for path
CacheWithout(cache, path) == SelectSeq(cache, LAMBDA e : e.path # path)

\* mutant: no lru_cache, every call opens the file
ReadManifestFile_NoCache(path, cache, file) ==
    IF ~file.readable
    THEN [raised |-> TRUE, manifest |-> EmptyMap, cache |-> cache, opened |-> TRUE]
    ELSE [raised |-> FALSE, manifest |-> file.content, cache |-> cache, opened |-> TRUE]

\* mutant: lru_cache(maxsize=None), nothing is evicted
ReadManifestFile_Unbounded(path, cache, file) ==
    IF \E n \in DOMAIN cache : cache[n].path = path
    THEN LET hit == cache[CHOOSE n \in DOMAIN cache : cache[n].path = path] IN
         [ raised |-> FALSE, manifest |-> hit.manifest,
           cache |-> Append(CacheWithout(cache, path), hit), opened |-> FALSE ]
    ELSE IF ~file.readable
    THEN [raised |-> TRUE, manifest |-> EmptyMap, cache |-> cache, opened |-> TRUE]
    ELSE [ raised |-> FALSE, manifest |-> file.content,
           cache |-> Append(cache, CacheEntry(path, file.content)), opened |-> TRUE ]

\* _read_manifest_file under lru_cache: [raised, manifest, cache, opened
\* (whether the file was opened)].  A hit makes its entry the most recently
\* used; a call that raises is not cached; a call that returns is cached, in
\* place of the least recently used entry when the cache is full
ReadManifestFile(path, cache, file) ==
    IF \E n \in DOMAIN cache : cache[n].path = path
    THEN LET hit == cache[CHOOSE n \in DOMAIN cache : cache[n].path = path] IN
         [ raised |-> FALSE, manifest |-> hit.manifest,
           cache |-> Append(CacheWithout(cache, path), hit), opened |-> FALSE ]
    ELSE IF ~file.readable
    THEN [raised |-> TRUE, manifest |-> EmptyMap, cache |-> cache, opened |-> TRUE]
    ELSE [ raised |-> FALSE, manifest |-> file.content,
           cache |-> Append(IF Len(cache) >= CacheMaxSize THEN Tail(cache) ELSE cache,
                            CacheEntry(path, file.content)),
           opened |-> TRUE ]

\* nothing was read, no adapter was constructed
NoUse == [content |-> EmptyMap, others |-> 0, last |-> 0]

\* the manifest path of the n-th other configuration of the process
OtherPath(n) == "dist" \o ToString(n) \o "/.vite/manifest.json"

\* the manifest at the other paths: {}
OtherManifest == ManifestOf(EmptyMap)

OtherConfig(c, n) == [c EXCEPT !.manifest_json_path = OtherPath(n)]

FilesResult(error, files, cache, consulted, opened) ==
    [ error |-> error, files |-> files, cache |-> cache, consulted |-> consulted,
      opened |-> opened ]

\* _set_inertia_files: [error ("" when none), files, cache, consulted (whether
\* _read_manifest_file was called), opened (whether it opened the file)]
SetInertiaFiles(c, cache, file) ==
    IF IsBundled(c)
    THEN
        LET read == ReadManifestFile(c.manifest_json_path, cache, file)
            key == c.root_directory \o "/" \o c.entrypoint_filename
        IN  IF read.raised THEN FilesResult("ManifestReadError", NoFiles, read.cache, TRUE, read.opened)
            ELSE IF key \notin DOMAIN read.manifest
            THEN FilesResult("KeyError", NoFiles, read.cache, TRUE, read.opened)
            ELSE
                LET chunk == read.manifest[key]
                    css == IF "css" \in DOMAIN chunk THEN chunk.css ELSE <<>>
                IN  IF "file" \notin DOMAIN chunk
                    THEN FilesResult("KeyError", NoFiles, read.cache, TRUE, read.opened)
                    ELSE IF ~c.has_assets_prefix
                    THEN FilesResult("AttributeError", NoFiles, read.cache, TRUE, read.opened)
                    ELSE FilesResult("",
                            [ css_files |->
                                [n \in DOMAIN css |-> PosixJoinRoot(c.assets_prefix, css[n])],
                              js_file |-> PosixJoinRoot(c.assets_prefix, chunk.file) ],
                            read.cache, TRUE, read.opened)
    ELSE FilesResult("",
            [ css_files |-> <<>>,
              js_file |-> c.dev_url \o "/" \o c.root_directory \o "/" \o c.entrypoint_filename ],
            cache, FALSE, FALSE)

\* ------------------------------------------------------------------ templating
ScriptTag(src) == [tag |-> "script", type |-> "module", src |-> src]

StylesheetLink(href) == [tag |-> "link", rel |-> "stylesheet", href |-> href]

Markup(text) == [tag |-> "markup", text |-> text]

MountElement(data) == [tag |-> "div", id |-> "app", data_page |-> data]

\* "\n".join(lines)
RECURSIVE JoinLines(_)
JoinLines(lines) ==
    IF lines = <<>> THEN ""
    ELSE IF Len(lines) = 1 THEN lines[1]
    ELSE lines[1] \o "\n" \o JoinLines(Tail(lines))

\* _vite_dev_head, as page fragments
ViteDevHead(dev_url, is_react) ==
    (IF is_react THEN <<Markup("react-refresh preamble of " \o dev_url)>> ELSE <<>>)
    \o <<ScriptTag(dev_url \o "/@vite/client")>>

\* InertiaExtension._render_inertia_head, as page fragments
RenderInertiaHead(ctx) ==
    (IF ctx.environment = "development" THEN ViteDevHead(ctx.dev_url, ctx.is_react) ELSE <<>>)
    \o (IF ctx.is_ssr THEN <<Markup(ctx.ssr_head)>> ELSE <<>>)
    \o [n \in DOMAIN ctx.css |-> StylesheetLink(ctx.css[n])]

\* mutant: the mount element is emitted on server-rendered pages too
RenderInertiaBody_MountToo(ctx) ==
    (IF ctx.is_ssr THEN <<Markup(ctx.ssr_body)>> ELSE <<>>)
    \o <<MountElement(ctx.data), ScriptTag(ctx.js)>>

\* InertiaExtension._render_inertia_body, as page fragments
RenderInertiaBody(ctx) ==
    (IF ctx.is_ssr THEN <<Markup(ctx.ssr_body)>> ELSE <<MountElement(ctx.data)>>)
    \o <<ScriptTag(ctx.js)>>

\* templates.TemplateResponse on the root template: {% inertia_head %} in
\* <head>, {% inertia_body %} in <body>
TemplateResponse(ctx) ==
    [ kind |-> "html", status |-> 200, media_type |-> "text/html",
      head |-> RenderInertiaHead(ctx), body |-> RenderInertiaBody(ctx) ]

InertiaContext(c, files, is_ssr, ssr_head, ssr_body, data) ==
    [ environment |-> c.environment, is_react |-> c.is_react, dev_url |-> c.dev_url,
      is_ssr |-> is_ssr, ssr_head |-> ssr_head, ssr_body |-> ssr_body, data |-> data,
      js |-> files.js_file, css |-> files.css_files ]

\* json.dumps(obj): the JSON text of obj
JsonDumps(obj) == [json_text_of |-> obj]

\* the classic response of render (inertia.py 352-371).  The inner
\* json.dumps(page, cls=InertiaJsonEncoder) returns the encoder's
\* jsonable_encoder(page), an object and not text, so the outer json.dumps
\* encodes the page once.
ClassicResponse(c, files, page) ==
    TemplateResponse(InertiaContext(c, files, FALSE, "", "", JsonDumps(page)))

\* the tail of _render_ssr (inertia.py 239-258) on the service's JSON
SsrResponse(c, files, response_json) ==
    TemplateResponse(
        InertiaContext(c, files, TRUE, JoinLines(response_json.head), response_json.body,
                       JsonDumps("")))

\* the JSONResponse of render (inertia.py 336-342)
JsonResponse(page) ==
    [ kind |-> "json", status |-> 200, media_type |-> "application/json",
      headers |-> [Vary |-> "Accept", X_Inertia |-> "true"],
      content |-> page ]

Raised(error) == [kind |-> "raised", error |-> error]

\* mutant: the two status codes change places
BackResponse_Swapped(method, referer) ==
    IF ~referer.has THEN Raised("KeyError")
    ELSE [ kind |-> "redirect", url |-> referer.val,
           status |-> IF method = "GET" THEN 303 ELSE 307 ]

\* the RedirectResponse of back (inertia.py 296-308); headers["Referer"] raises
\* KeyError when the header is absent
BackResponse(method, referer) ==
    IF ~referer.has THEN Raised("KeyError")
    ELSE [ kind |-> "redirect", url |-> referer.val,
           status |-> IF method = "GET" THEN 307 ELSE 303 ]

VersionConflict(url) ==
    [kind |-> "raised", error |-> "InertiaVersionConflictException", url |-> url]

\* ------------------------------------------------------------------- session
FlashMessage(message, category) == [message |-> message, category |-> category]

\* mutant: the messages are read and left in the session
GetFlashedMessages_Peek(sess) ==
    IF "_messages" \in DOMAIN sess
    THEN [value |-> sess["_messages"], session |-> sess]
    ELSE [value |-> <<>>, session |-> sess]

\* _get_flashed_messages: [value, session]
GetFlashedMessages(sess) ==
    IF "_messages" \in DOMAIN sess
    THEN [value |-> sess["_messages"], session |-> Without(sess, "_messages")]
    ELSE [value |-> <<>>, session |-> sess]

\* _get_flashed_errors: [value, session]
GetFlashedErrors(sess) ==
    IF "_errors" \in DOMAIN sess
    THEN [value |-> sess["_errors"], session |-> Without(sess, "_errors")]
    ELSE [value |-> EmptyMap, session |-> sess]

\* mutant: the new message is put before the held ones
FlashAppend_Prepend(sess, message, category) ==
    LET held == IF "_messages" \in DOMAIN sess THEN sess["_messages"] ELSE <<>> IN
    Update(sess, [k \in {"_messages"} |-> <<FlashMessage(message, category)>> \o held])

\* the body of flash once the feature is known to be enabled: the session after
FlashAppend(sess, message, category) ==
    LET held == IF "_messages" \in DOMAIN sess THEN sess["_messages"] ELSE <<>> IN
    Update(sess, [k \in {"_messages"} |-> Append(held, FlashMessage(message, category))])

\* mutant: the shared props are laid over render's props
MergeProps_SharedWins(c, props, sess, renderProps) ==
    LET m == GetFlashedMessages(sess)
        s1 == IF c.use_flash_messages THEN m.session ELSE sess
        e == GetFlashedErrors(s1)
        s2 == IF c.use_flash_errors THEN e.session ELSE s1
        f1 == IF c.use_flash_messages
              THEN [k \in {c.flash_message_key} |-> [kind |-> "value", val |-> JList(m.value)]]
              ELSE EmptyMap
        f2 == IF c.use_flash_errors
              THEN [k \in {c.flash_error_key} |-> [kind |-> "value", val |-> JMap(e.value)]]
              ELSE EmptyMap
    IN  [props |-> Update(Update(Update(renderProps, f1), f2), props), session |-> s2]

\* mutant: the flash data is laid over render's props
MergeProps_FlashWins(c, props, sess, renderProps) ==
    LET m == GetFlashedMessages(sess)
        s1 == IF c.use_flash_messages THEN m.session ELSE sess
        e == GetFlashedErrors(s1)
        s2 == IF c.use_flash_errors THEN e.session ELSE s1
        f1 == IF c.use_flash_messages
              THEN [k \in {c.flash_message_key} |-> [kind |-> "value", val |-> JList(m.value)]]
              ELSE EmptyMap
        f2 == IF c.use_flash_errors
              THEN [k \in {c.flash_error_key} |-> [kind |-> "value", val |-> JMap(e.value)]]
              ELSE EmptyMap
    IN  [props |-> Update(Update(Update(props, renderProps), f1), f2), session |-> s2]

\* the head of render (inertia.py 322-333): [props, session], the merged prop
\* map and the session after the pops
MergeProps(c, props, sess, renderProps) ==
    LET m == GetFlashedMessages(sess)
        p1 == IF c.use_flash_messages
              THEN Update(props, [k \in {c.flash_message_key} |->
                                    [kind |-> "value", val |-> JList(m.value)]])
              ELSE props
        s1 == IF c.use_flash_messages THEN m.session ELSE sess
        e == GetFlashedErrors(s1)
        p2 == IF c.use_flash_errors
              THEN Update(p1, [k \in {c.flash_error_key} |->
                                    [kind |-> "value", val |-> JMap(e.value)]])
              ELSE p1
        s2 == IF c.use_flash_errors THEN e.session ELSE s1
    IN  [props |-> Update(p2, renderProps), session |-> s2]

\* ------------------------------------------------------------- render service
\* _ASYNC_HTTPX_CLIENT is None, and no hook is registered
NoClient == [id |-> 0, closed |-> FALSE, atexit |-> FALSE]

\* mutant: a client is made at every call
GetOrCreateHttpxClient_Fresh(h) == [id |-> h.id + 1, closed |-> FALSE, atexit |-> TRUE]

\* _get_or_create_httpx_client: the module global after the call (the client
\* it returns).  id numbers the AsyncClient instances in the order of their
\* construction; atexit tells whether close_httpx_client is registered
GetOrCreateHttpxClient(h) ==
    IF h.id = 0 THEN [id |-> h.id + 1, closed |-> FALSE, atexit |-> TRUE] ELSE h

\* close_httpx_client, the hook run at interpreter exit: the module global
\* after it.  asyncio.get_running_loop() raises RuntimeError when no loop is
\* running in the thread, and loop.run_until_complete raises RuntimeError on
\* a loop that is running; the hook catches both, and aclose() has not run
CloseHttpxClient(h, loopRunning) ==
    IF h.id = 0 THEN h
    ELSE IF ~loopRunning THEN h
    ELSE h

\* whether render takes the branch that calls _render_ssr
AttemptsSsr(req, c) == ~IsInertiaRequest(req) /\ c.ssr_enabled

PostRaises == [raises |-> TRUE, status |-> 0, json |-> EmptyMap]

Reply(status, json) == [raises |-> FALSE, status |-> status, json |-> json]

RenderedPage == [head |-> <<"<title>Index</title>", "<meta name=ssr>">>, body |-> "<div id=app>ssr</div>"]

ServiceReplies ==
    { PostRaises,
      Reply(500, RenderedPage),
      Reply(200, RenderedPage),
      Reply(200, [head |-> RenderedPage.head]),
      Reply(200, [body |-> RenderedPage.body]) }

\* mutant: response.raise_for_status() is not called
SsrCallFails_NoStatusCheck(reply) ==
    \/ reply.raises
    \/ "head" \notin DOMAIN reply.json
    \/ "body" \notin DOMAIN reply.json

\* whether the part of _render_ssr after the POST raises on this reply:
\* client.post, raise_for_status, response_json["head"], response_json["body"]
SsrCallFails(reply) ==
    \/ reply.raises
    \/ reply.status >= 400
    \/ "head" \notin DOMAIN reply.json
    \/ "body" \notin DOMAIN reply.json

\* mutant: the POST goes to the service's root URL
SsrPost_NoRenderPath(c, page) ==
    [ url |-> c.ssr_url, json |-> page,
      headers |-> [Content_Type |-> "application/json"] ]

\* the request _render_ssr posts (inertia.py 230-235): json= is given the
\* encoder's output for the page data, the page object itself
SsrPost(c, page) ==
    [ url |-> c.ssr_url \o "/render", json |-> page,
      headers |-> [Content_Type |-> "application/json"] ]

\* the call counts after one more call of the callables under keys
CountCalls(calls, keys) ==
    [ k \in (DOMAIN calls) \cup keys |->
        (IF k \in DOMAIN calls THEN calls[k] ELSE 0) + (IF k \in keys THEN 1 ELSE 0) ]

\* mutant: the fallback reuses the page data the SSR attempt built
ClassicPath_ReusesPage(a, c) ==
    LET data == GetPageData(a, c) IN
    IF a.builds = 0
    THEN LET a1 == [a EXCEPT !.builds = @ + 1, !.pc = "done", !.props = data.source,
                             !.invoked = @ \cup data.called,
                             !.calls = CountCalls(@, data.called)]
         IN  IF data.raised
             THEN [a1 EXCEPT !.outcome = Raised("ProducerError")]
             ELSE [a1 EXCEPT !.templates = @ + 1,
                             !.outcome = ClassicResponse(c, a.inertia_files, data.page)]
    ELSE IF data.raised
    THEN [a EXCEPT !.pc = "done", !.outcome = Raised("ProducerError")]
    ELSE [a EXCEPT !.pc = "done", !.templates = @ + 1,
                   !.outcome = ClassicResponse(c, a.inertia_files, data.page)]

\* the classic fallback of render on adapter record a: a second (or first)
\* build of the page data, then the template
ClassicPath(a, c) ==
    LET data == GetPageData(a, c)
        a1 == [a EXCEPT !.builds = @ + 1, !.pc = "done", !.props = data.source,
                        !.invoked = @ \cup data.called,
                        !.calls = CountCalls(@, data.called)]
    IN  IF data.raised
        THEN [a1 EXCEPT !.outcome = Raised("ProducerError")]
        ELSE [a1 EXCEPT !.templates = @ + 1,
                        !.outcome = ClassicResponse(c, a.inertia_files, data.page)]

\* the JSON path of render on adapter record a
JsonPath(a, c) ==
    LET data == GetPageData(a, c)
        a1 == [a EXCEPT !.builds = @ + 1, !.pc = "done", !.props = data.source,
                        !.invoked = @ \cup data.called,
                        !.calls = CountCalls(@, data.called)]
    IN  IF data.raised
        THEN [a1 EXCEPT !.outcome = Raised("ProducerError")]
        ELSE [a1 EXCEPT !.outcome = JsonResponse(data.page)]

\* mutant: a failure while building the page data is not caught
SsrAttempt_Uncaught(a, c) ==
    LET data == GetPageData(a, c)
        a1 == [a EXCEPT !.builds = @ + 1, !.props = data.source,
                        !.invoked = @ \cup data.called,
                        !.calls = CountCalls(@, data.called)]
    IN  IF data.raised
        THEN [a1 EXCEPT !.pc = "done", !.outcome = Raised("ProducerError")]
        ELSE [a1 EXCEPT !.pc = "ssr_wait", !.posts = Append(@, SsrPost(c, data.page))]

\* _render_ssr up to its await on adapter record a: the page data is built and
\* posted; a failure of the build is caught by render, which falls back
SsrAttempt(a, c) ==
    LET data == GetPageData(a, c)
        a1 == [a EXCEPT !.builds = @ + 1, !.props = data.source,
                        !.invoked = @ \cup data.called,
                        !.calls = CountCalls(@, data.called)]
    IN  IF data.raised
        THEN ClassicPath(a1, c)
        ELSE [a1 EXCEPT !.pc = "ssr_wait", !.posts = Append(@, SsrPost(c, data.page))]

\* mutant: the SSR branch is tested before the X-Inertia header
Respond_SsrFirst(a, c) ==
    IF c.ssr_enabled THEN SsrAttempt(a, c)
    ELSE IF IsInertiaRequest(a.request) THEN JsonPath(a, c)
    ELSE ClassicPath(a, c)

\* render from line 335 on, on adapter record a with component and props set
Respond(a, c) ==
    IF IsInertiaRequest(a.request) THEN JsonPath(a, c)
    ELSE IF c.ssr_enabled THEN SsrAttempt(a, c)
    ELSE ClassicPath(a, c)

\* mutant: the version is checked before the assets are resolved
Construct_StaleFirst(req, c, res) ==
    LET a == [IdleAdapter EXCEPT !.request = req] IN
    IF IsStale(req, c)
    THEN [a EXCEPT !.pc = "done", !.outcome = VersionConflict(req.url)]
    ELSE IF res.error # ""
    THEN [a EXCEPT !.pc = "done", !.outcome = Raised(res.error)]
    ELSE [a EXCEPT !.pc = "handler", !.inertia_files = res.files, !.constructed = TRUE]

\* Inertia.__init__ on a request: the adapter record after construction
Construct(req, c, res) ==
    LET a == [IdleAdapter EXCEPT !.request = req, !.consulted = res.consulted] IN
    IF res.error # ""
    THEN [a EXCEPT !.pc = "done", !.outcome = Raised(res.error)]
    ELSE IF IsStale(req, c)
    THEN [a EXCEPT !.pc = "done", !.inertia_files = res.files,
                   !.outcome = VersionConflict(req.url)]
    ELSE [a EXCEPT !.pc = "handler", !.inertia_files = res.files, !.constructed = TRUE]

\* ------------------------------------------------------------------- actions
\* inertia_dependency(request): Inertia(request, config_)
InertiaInit(i, req) ==
    /\ process = "running"
    /\ adapters[i].pc = "idle"
    /\ LET res == SetInertiaFiles(cfg, manifestCache, manifestFile) IN
        /\ res.opened => manifestReads < MaxReads
        /\ manifestReads' = IF res.opened THEN manifestReads + 1 ELSE manifestReads
        /\ manifestUse' =
             [ content |-> IF res.opened /\ manifestFile.readable
                           THEN manifestFile.content ELSE manifestUse.content,
               others |-> IF res.consulted THEN 0 ELSE manifestUse.others,
               last |-> manifestUse.last ]
        /\ manifestCache' = res.cache
        /\ adapters' = [adapters EXCEPT ![i] = Construct(req, cfg, res)]
    /\ UNCHANGED <<mount, resolve, process, cfg, manifestFile, httpClient, session, flashed>>

\* mutant: _props is one dict of the class, shared by every instance
Share_ClassLevelProps(i, k, v) ==
    /\ adapters[i].pc = "handler"
    /\ adapters[i].shares < MaxShare
    /\ adapters' = [j \in DOMAIN adapters |->
                        IF j = i
                        THEN [adapters[j] EXCEPT !.props = Update(@, [x \in {k} |-> v]),
                                                 !.shares = @ + 1]
                        ELSE [adapters[j] EXCEPT !.props = Update(@, [x \in {k} |-> v])]]
    /\ UNCHANGED <<mount, resolve, process, manifestReads, manifestUse, cfg, manifestFile,
                   manifestCache, httpClient, session, flashed>>

\* inertia.share(k=v)
Share(i, k, v) ==
    /\ adapters[i].pc = "handler"
    /\ adapters[i].shares < MaxShare
    /\ adapters' = [adapters EXCEPT ![i].props = Update(@, [x \in {k} |-> v]),
                                    ![i].shares = @ + 1]
    /\ UNCHANGED <<mount, resolve, process, manifestReads, manifestUse, cfg, manifestFile, manifestCache, httpClient, session, flashed>>

\* inertia.flash(message, category)
Flash(i, message, category) ==
    /\ adapters[i].pc = "handler"
    /\ IF ~cfg.use_flash_messages
       THEN /\ adapters' = [adapters EXCEPT ![i].pc = "done",
                                            ![i].outcome = Raised("NotImplementedError")]
            /\ UNCHANGED <<session, flashed>>
       ELSE /\ Len(GetFlashedMessages(session).value) < MaxFlash
            /\ session' = FlashAppend(session, message, category)
            /\ flashed' = Append(flashed, FlashMessage(message, category))
            /\ adapters' = [adapters EXCEPT ![i].flashes = @ + 1]
    /\ UNCHANGED <<mount, resolve, process, manifestReads, manifestUse, cfg, manifestFile, manifestCache, httpClient>>

\* inertia.render(component, props), up to its return or to the await of the
\* POST to the render service
Render(i, component, props) ==
    /\ adapters[i].pc = "handler"
    /\ LET merged == MergeProps(cfg, adapters[i].props, session, props)
           a == [adapters[i] EXCEPT !.component = component,
                                    !.props = merged.props,
                                    !.renders = @ + 1,
                                    !.given = props,
                                    !.popped = cfg.use_flash_messages,
                                    !.pending = flashed]
       IN  /\ session' = merged.session
           /\ flashed' = IF cfg.use_flash_messages THEN <<>> ELSE flashed
           /\ httpClient' = IF AttemptsSsr(a.request, cfg)
                            THEN GetOrCreateHttpxClient(httpClient) ELSE httpClient
           /\ adapters' = [adapters EXCEPT ![i] =
                    [Respond(a, cfg) EXCEPT !.client =
                        IF AttemptsSsr(a.request, cfg)
                        THEN GetOrCreateHttpxClient(httpClient).id ELSE @]]
    /\ UNCHANGED <<mount, resolve, process, manifestReads, manifestUse, cfg, manifestFile, manifestCache>>

\* _render_ssr resumed with the render service's reply, and the rest of render
RenderResume(i, reply) ==
    /\ adapters[i].pc = "ssr_wait"
    /\ adapters' = [adapters EXCEPT ![i] =
            LET a == [adapters[i] EXCEPT !.reply = reply] IN
            IF SsrCallFails(reply)
            THEN ClassicPath(a, cfg)
            ELSE [a EXCEPT !.pc = "done", !.templates = @ + 1,
                    !.outcome = SsrResponse(cfg, a.inertia_files, reply.json)]]
    /\ UNCHANGED <<mount, resolve, process, manifestReads, manifestUse, cfg, manifestFile, manifestCache, httpClient, session, flashed>>

\* inertia.back(), returned by the handler in place of a render.  The method
\* and the Referer header of the request are read by back() alone and are
\* drawn here, where they are read.
Back(i, method, referer) ==
    /\ adapters[i].pc = "handler"
    /\ adapters' = [adapters EXCEPT ![i].pc = "done",
                                    ![i].back = [called |-> TRUE, method |-> method,
                                                 referer |-> referer],
                                    ![i].outcome = BackResponse(method, referer)]
    /\ UNCHANGED <<mount, resolve, process, manifestReads, manifestUse, cfg, manifestFile, manifestCache, httpClient, session, flashed>>

\* the response (or the error) has left: the request and its adapter are gone
Release(i) ==
    /\ adapters[i].pc = "done"
    /\ adapters' = [adapters EXCEPT ![i] = IdleAdapter]
    /\ UNCHANGED <<mount, resolve, process, manifestReads, manifestUse, cfg, manifestFile, manifestCache, httpClient, session, flashed>>

\* Inertia.__init__ for a request served under another InertiaConfig of the
\* same process, whose manifest is at OtherPath(n) and can be read; that
\* adapter shares the manifest cache and nothing else, and is not followed
InertiaInitElsewhere(n) ==
    /\ process = "running"
    /\ manifestUse.others < MaxPaths
    /\ manifestCache' = SetInertiaFiles(OtherConfig(cfg, n), manifestCache, OtherManifest).cache
    /\ manifestUse' = [manifestUse EXCEPT !.others = @ + 1, !.last = n]
    /\ UNCHANGED <<mount, resolve, process, manifestReads, cfg, manifestFile, httpClient, session,
                   adapters, flashed>>

\* the build is run again: the manifest on disk is replaced
ChangeFile(file) ==
    /\ manifestFile # file
    /\ manifestFile' = file
    /\ UNCHANGED <<mount, resolve, process, manifestReads, manifestUse, cfg, manifestCache,
                   httpClient, session, adapters, flashed>>

\* the interpreter exits once no request is being served: the atexit hooks
\* run.  Whether an event loop is running in the exiting thread is drawn
Shutdown(loopRunning) ==
    /\ process = "running"
    /\ \A i \in DOMAIN adapters : adapters[i].pc = "idle"
    /\ process' = "exited"
    /\ httpClient' = IF httpClient.atexit
                     THEN CloseHttpxClient(httpClient, loopRunning) ELSE httpClient
    /\ UNCHANGED <<mount, resolve, manifestReads, manifestUse, cfg, manifestFile, manifestCache, session,
                   adapters, flashed>>

\* no call of _build_props is being followed on its own
NoResolve == [stage |-> "none"]

\* no mount element is being followed
NoMount == [stage |-> "none"]

\* ------------------------------------------------------------- specification
Configs ==
    { InertiaConfig(env, ssr, fm, fe, FALSE, "") :
        env \in {"development", "production"}, ssr \in BOOLEAN,
        fm \in BOOLEAN, fe \in BOOLEAN }

WithAssets(c, setup) == [c EXCEPT !.has_assets_prefix = setup[1], !.assets_prefix = setup[2]]

StoredErrors == [k \in {"email"} |-> "invalid"]

\* the session the first request finds: validation errors stored for it by an
\* earlier response, no flashed message
InitialSession == [k \in {"_errors"} |-> StoredErrors]

\* share(a=...), with a value or with a LazyProp, and share(messages=...), a
\* key the flash messages use too
ShareInputs ==
    { <<"a", Plain("shared")>>, <<"a", Lazy("again")>>, <<"messages", Plain("kept")>> }

\* the fields of the BaseModel a handler passes as a prop
Person == [name |-> "John Doe", age |-> 42]

RenderProps ==
    { EmptyMap,
      [k \in {"a"} |-> Plain("x")],
      [k \in {"a", "b"} |-> IF k = "a" THEN Lazy("y") ELSE Plain("z")],
      [k \in {"b"} |-> Raising],
      [k \in {"b"} |-> Flaky("w")],
      [k \in {"messages"} |-> Plain("mine")],
      [k \in {"person"} |-> Model(Person)] }

\* the text of the n-th message the session holds
MessageNo(n) == "m" \o ToString(n)

Categories == {"info"}

Methods == {"GET", "POST", "DELETE"}

Referers == {NoHeader, Header("http://testserver/previous")}

Init ==
    /\ \E c \in Configs, setup \in AssetSetups :
        /\ IsBundled(c) \/ setup = <<FALSE, "", ManifestWithCss>>
        /\ cfg = WithAssets(c, setup)
        /\ manifestFile = setup[3]
    /\ manifestReads = 0
    /\ manifestUse = NoUse
    /\ manifestCache = EmptyCache
    /\ httpClient = NoClient
    /\ process = "running"
    /\ session = InitialSession
    /\ adapters = [i \in Adapters |-> IdleAdapter]
    /\ flashed = <<>>
    /\ resolve = NoResolve
    /\ mount = NoMount

Next ==
    \/ \E i \in Adapters : \E req \in Requests(i) : InertiaInit(i, req)
    \/ \E i \in Adapters, s \in ShareInputs : Share(i, s[1], s[2])
    \/ \E i \in Adapters, cat \in Categories :
        Flash(i, MessageNo(Len(GetFlashedMessages(session).value) + 1), cat)
    \/ \E i \in Adapters, component \in Components, props \in RenderProps :
        Render(i, component, props)
    \/ \E i \in Adapters, reply \in ServiceReplies : RenderResume(i, reply)
    \/ \E i \in Adapters, method \in Methods, referer \in Referers : Back(i, method, referer)
    \/ \E i \in Adapters : Release(i)
    \/ \E loopRunning \in BOOLEAN : Shutdown(loopRunning)

Spec == Init /\ [][Next]_vars

\* ------------------------------------------------- the mount element as text
\* In SpecMount a text is a sequence of characters; the parts of it that hold
\* no quote of the prop value are kept as one atom each.

\* longest prop value followed
MaxChars == 3

\* the characters a prop value is made of: a letter, the single quote, the
\* double quote, the backslash
Chars == {"a", "'", "\"", "\\"}

PropValues == UNION {[1..n -> Chars] : n \in 0..MaxChars}

\* json.dumps on the characters of a string: the double quote and the
\* backslash get a backslash before them, the single quote is left as it is
RECURSIVE EscapeJson(_)
EscapeJson(s) ==
    IF s = <<>> THEN <<>>
    ELSE (IF Head(s) \in {"\"", "\\"} THEN <<"\\", Head(s)>> ELSE <<Head(s)>>)
         \o EscapeJson(Tail(s))

\* the page JSON before and after the value of the prop "name"
PageHead == "{\"component\": \"Index\", \"props\": {\"name\": "
PageTail == "}, \"url\": \"http://testserver/users\", \"version\": \"1.0\"}"

\* json.dumps of the page data {component: Index, props: {name: value}, url,
\* version} (inertia.py 353-355)
JsonDumpsText(value) ==
    <<PageHead, "\"">> \o EscapeJson(value) \o <<"\"", PageTail>>

\* the mount element of _render_inertia_body (templating.py 52): the data is
\* put between single quotes as it is; the result is Markup, which the
\* template does not escape
MountOpen == "<div id=\"app\" data-page='"
MountClose == "'></div>"
MountMarkup(data) == <<MountOpen>> \o data \o <<MountClose>>

\* an HTML reader's value of the attribute the markup opens with: all that
\* precedes the next single quote
RECURSIVE UpToQuote(_)
UpToQuote(s) ==
    IF s = <<>> \/ Head(s) \in {"'", MountClose} THEN <<>>
    ELSE <<Head(s)>> \o UpToQuote(Tail(s))

AttributeValue(markup) == UpToQuote(Tail(markup))

\* the characters of a JSON string literal whose opening quote has been read,
\* up to its closing quote: [ok, value, rest]
RECURSIVE ReadString(_, _)
ReadString(s, acc) ==
    IF s = <<>> THEN [ok |-> FALSE, value |-> acc, rest |-> <<>>]
    ELSE IF Head(s) = "\"" THEN [ok |-> TRUE, value |-> acc, rest |-> Tail(s)]
    ELSE IF Head(s) = "\\"
         THEN IF Len(s) >= 2 /\ s[2] \in {"\"", "\\"}
              THEN ReadString(Tail(Tail(s)), Append(acc, s[2]))
              ELSE [ok |-> FALSE, value |-> acc, rest |-> <<>>]
    ELSE ReadString(Tail(s), Append(acc, Head(s)))

\* json.loads / JSON.parse of a page text, read for the value of "name":
\* [ok, value]
JsonLoads(text) ==
    IF Len(text) < 2 \/ text[1] # PageHead \/ text[2] # "\""
    THEN [ok |-> FALSE, value |-> <<>>]
    ELSE LET r == ReadString(Tail(Tail(text)), <<>>) IN
         IF r.ok /\ r.rest = <<PageTail>>
         THEN [ok |-> TRUE, value |-> r.value]
         ELSE [ok |-> FALSE, value |-> <<>>]

\* render reaches the classic path with a prop of the given value
MountStart(value) ==
    [ stage |-> "props", value |-> value, data |-> <<>>, markup |-> <<>>,
      attr |-> <<>>, loaded |-> [ok |-> FALSE, value |-> <<>>] ]

\* page_json = json.dumps(...)
MountDumps ==
    /\ mount.stage = "props"
    /\ mount' = [mount EXCEPT !.stage = "data", !.data = JsonDumpsText(mount.value)]
    /\ UNCHANGED <<process, manifestReads, manifestUse, cfg, manifestFile, manifestCache,
                   httpClient, session, adapters, flashed, resolve>>

\* {% inertia_body %}
MountRender ==
    /\ mount.stage = "data"
    /\ mount' = [mount EXCEPT !.stage = "markup", !.markup = MountMarkup(mount.data)]
    /\ UNCHANGED <<process, manifestReads, manifestUse, cfg, manifestFile, manifestCache,
                   httpClient, session, adapters, flashed, resolve>>

\* the client reads the data-page attribute of div#app
MountRead ==
    /\ mount.stage = "markup"
    /\ mount' = [mount EXCEPT !.stage = "attr", !.attr = AttributeValue(mount.markup)]
    /\ UNCHANGED <<process, manifestReads, manifestUse, cfg, manifestFile, manifestCache,
                   httpClient, session, adapters, flashed, resolve>>

\* the client decodes the attribute value
MountLoads ==
    /\ mount.stage = "attr"
    /\ mount' = [mount EXCEPT !.stage = "loaded", !.loaded = JsonLoads(mount.attr)]
    /\ UNCHANGED <<process, manifestReads, manifestUse, cfg, manifestFile, manifestCache,
                   httpClient, session, adapters, flashed, resolve>>

InitMount ==
    /\ cfg = InertiaConfig("development", FALSE, FALSE, FALSE, FALSE, "")
    /\ manifestFile = ManifestWithCss
    /\ manifestReads = 0
    /\ manifestUse = NoUse
    /\ manifestCache = EmptyCache
    /\ httpClient = NoClient
    /\ process = "running"
    /\ session = EmptyMap
    /\ adapters = [i \in Adapters |-> IdleAdapter]
    /\ flashed = <<>>
    /\ resolve = NoResolve
    /\ \E value \in PropValues : mount = MountStart(value)

NextMount == MountDumps \/ MountRender \/ MountRead \/ MountLoads

SpecMount == InitMount /\ [][NextMount]_vars

\* ------------------------------------------------ prop selection in breadth
\* SpecProps runs the adapter on prop maps with an empty-string key and with
\* nested dicts, and on partial-data headers with an empty value or an empty
\* piece; its configurations and service replies are few.

PropConfigs ==
    { InertiaConfig("development", FALSE, FALSE, FALSE, FALSE, ""),
      InertiaConfig("development", TRUE, TRUE, FALSE, TRUE, "") }

\* <<X-Inertia-Partial-Data, X-Inertia-Partial-Component>>: absent, absent
\* beside a component, present and empty, "a", "user,"
PropPartialHeaders ==
    { <<NoPartialData, NoHeader>>,
      <<NoPartialData, Header("Index")>>,
      <<PartialData(<<>>), Header("Index")>>,
      <<PartialData(<<"a">>), Header("Index")>>,
      <<PartialData(<<"user", ",">>), Header("Index")>> }

PropRequests(i) ==
    { Request(i, x, NoHeader, ph[1], ph[2]) :
        x \in {NoHeader, Header("true")}, ph \in PropPartialHeaders }

\* {"name": "Ann", "posts": lazy(...)}
Account == Dict([k \in {"name", "posts"} |-> IF k = "name" THEN Plain("Ann") ELSE Lazy("p1")])

\* {"account": {...}, "theme": "dark"}
Settings == Dict([k \in {"account", "theme"} |-> IF k = "account" THEN Account ELSE Plain("dark")])

PropShareInputs == { <<"user", Account>>, <<"a", Plain("shared")>> }

PropMaps ==
    { EmptyMap,
      [k \in {"", "a"} |-> IF k = "" THEN Plain("nameless") ELSE Plain("x")],
      [k \in {"", "user"} |-> IF k = "" THEN Lazy("late") ELSE Settings],
      [k \in {"user"} |-> Account] }

PropReplies == {PostRaises, Reply(200, RenderedPage)}

InitProps ==
    /\ cfg \in PropConfigs
    /\ manifestFile = ManifestWithCss
    /\ manifestReads = 0
    /\ manifestUse = NoUse
    /\ manifestCache = EmptyCache
    /\ httpClient = NoClient
    /\ process = "running"
    /\ session = EmptyMap
    /\ adapters = [i \in Adapters |-> IdleAdapter]
    /\ flashed = <<>>
    /\ resolve = NoResolve
    /\ mount = NoMount

NextProps ==
    \/ \E i \in Adapters : \E req \in PropRequests(i) : InertiaInit(i, req)
    \/ \E i \in Adapters, s \in PropShareInputs : Share(i, s[1], s[2])
    \/ \E i \in Adapters, props \in PropMaps : Render(i, "Index", props)
    \/ \E i \in Adapters, reply \in PropReplies : RenderResume(i, reply)
    \/ \E i \in Adapters : Release(i)

SpecProps == InitProps /\ [][NextProps]_vars

\* ------------------------------------------------- the manifest cache in use
\* SpecCache follows one configuration of a process in which adapters are
\* also constructed for other manifest paths, and in which the manifest on
\* disk changes.  The other paths are read in turn, 1, 2, ..., MaxPaths, 1, ...

CacheConfig == InertiaConfig("production", FALSE, FALSE, FALSE, TRUE, "")

\* what a later build leaves on disk
CacheFiles == {ManifestNoCss}

CacheRequest(i) == Request(i, NoHeader, NoHeader, NoPartialData, NoHeader)

\* the other path read next: the one after the other path read last
NextOther(use) == (use.last % MaxPaths) + 1

AllIdle == \A i \in DOMAIN adapters : adapters[i].pc = "idle"

InitCache ==
    /\ cfg = CacheConfig
    /\ manifestFile = ManifestWithCss
    /\ manifestReads = 0
    /\ manifestUse = NoUse
    /\ manifestCache = EmptyCache
    /\ httpClient = NoClient
    /\ process = "running"
    /\ session = EmptyMap
    /\ adapters = [i \in Adapters |-> IdleAdapter]
    /\ flashed = <<>>
    /\ resolve = NoResolve
    /\ mount = NoMount

NextCache ==
    \/ \E i \in Adapters : InertiaInit(i, CacheRequest(i))
    \/ \E i \in Adapters : Render(i, "Index", EmptyMap)
    \/ \E i \in Adapters : Release(i)
    \/ AllIdle /\ InertiaInitElsewhere(NextOther(manifestUse))
    \/ AllIdle /\ \E file \in CacheFiles : ChangeFile(file)

SpecCache == InitCache /\ [][NextCache]_vars

\* ------------------------------------------------------ two requests at once
\* SpecTwo serves two requests side by side, one adapter each, under one
\* configuration with flash messages enabled; the requests share the session
\* store, the manifest cache and the HTTP client.  What a handler passes names
\* its request, and a slot serves one request.

TwoAdapters == {"r1", "r2"}

TwoConfigs ==
    { InertiaConfig("development", ssr, TRUE, FALSE, TRUE, "") : ssr \in BOOLEAN }

TwoRequests(i) ==
    { Request(i, x, NoHeader, NoPartialData, NoHeader) : x \in {NoHeader, Header("true")} }

\* the component the handler of request i renders
ComponentOf(i) == "Page-" \o i

\* the props the handler of request i passes to render
TwoRenderProps(i) == {EmptyMap, [k \in {"b"} |-> Plain(i)]}

\* the text of the n-th message the handler of request i flashes
MessageOf(i, n) == i \o "-m" \o ToString(n)

TwoReplies == {PostRaises, Reply(200, RenderedPage)}

InitTwo ==
    /\ cfg \in TwoConfigs
    /\ manifestFile = ManifestWithCss
    /\ manifestReads = 0
    /\ manifestUse = NoUse
    /\ manifestCache = EmptyCache
    /\ httpClient = NoClient
    /\ process = "running"
    /\ session = EmptyMap
    /\ adapters = [i \in TwoAdapters |-> IdleAdapter]
    /\ flashed = <<>>
    /\ resolve = NoResolve
    /\ mount = NoMount

NextTwo ==
    \/ \E i \in TwoAdapters : \E req \in TwoRequests(i) : InertiaInit(i, req)
    \/ \E i \in TwoAdapters : Share(i, "a", Plain(i))
    \/ \E i \in TwoAdapters : Flash(i, MessageOf(i, adapters[i].flashes + 1), "info")
    \/ \E i \in TwoAdapters : \E props \in TwoRenderProps(i) : Render(i, ComponentOf(i), props)
    \/ \E i \in TwoAdapters, reply \in TwoReplies : RenderResume(i, reply)

SpecTwo == InitTwo /\ [][NextTwo]_vars

\* -------------------------------------------------- one call of _build_props
\* SpecResolve follows _build_props alone, on prop maps that hold callables
\* inside dicts, inside lists and inside what a callable returns: the page
\* data is looked at before any response is made of it.

\* deepest dict drawn
MaxNest == 2

\* a dict d deep: {"in": {... {"in": lazy(...), "fn": f} ...}, "fn": f}
RECURSIVE Nested(_)
Nested(d) ==
    IF d = 0 THEN Lazy("deep")
    ELSE Dict([k \in {"in", "fn"} |-> IF k = "in" THEN Nested(d - 1) ELSE Func("f")])

\* the key is not in the prop map
Absent == [kind |-> "absent"]

ResolveUsers == {Nested(d) : d \in 1..MaxNest}

\* [lazy(...), "r"] and [{"fn": g}]
ResolveItems ==
    { List(<<Lazy("q"), Plain("r")>>),
      List(<<Dict([k \in {"fn"} |-> Func("g")])>>) }

\* functions returning {"fn": h}, returning [h], returning "plain"
ResolveReports ==
    { Returning(Dict([k \in {"fn"} |-> Func("h")])),
      Returning(List(<<Func("h")>>)),
      Func("plain") }

ResolveLate == {Lazy("l")}

\* the prop map {"user": user, "items": items, "report": report, "late": late}
\* without the keys that are absent
ResolveMap(user, items, report, late) ==
    LET all == [k \in {"user", "items", "report", "late"} |->
                    IF k = "user" THEN user ELSE IF k = "items" THEN items
                    ELSE IF k = "report" THEN report ELSE late]
    IN  [k \in {x \in DOMAIN all : all[x] # Absent} |-> all[k]]

ResolveMaps ==
    { ResolveMap(user, items, report, late) :
        user \in ResolveUsers \cup {Absent}, items \in ResolveItems \cup {Absent},
        report \in ResolveReports \cup {Absent}, late \in ResolveLate \cup {Absent} }

\* a full render, and partial renders of "late,user" and of "items,report"
ResolveRequests ==
    { Request("r1", Header("true"), NoHeader, ph[1], ph[2]) :
        ph \in { <<NoPartialData, NoHeader>>,
                 <<PartialData(<<"late", ",", "user">>), Header("Index")>>,
                 <<PartialData(<<"items", ",", "report">>), Header("Index")>> } }

\* _get_page_data is about to call _build_props
ResolveStart(props, req) ==
    [stage |-> "props", props |-> props, request |-> req, payload |-> EmptyMap, paths |-> {}]

\* self._build_props()
ResolveBuild ==
    /\ resolve.stage = "props"
    /\ LET built == BuildProps(resolve.props, resolve.request, "Index", 0) IN
        resolve' = [resolve EXCEPT !.stage = "built", !.payload = built.props,
                                   !.paths = built.paths]
    /\ UNCHANGED <<mount, process, manifestReads, manifestUse, cfg, manifestFile,
                   manifestCache, httpClient, session, adapters, flashed>>

InitResolve ==
    /\ cfg = InertiaConfig("development", FALSE, FALSE, FALSE, FALSE, "")
    /\ manifestFile = ManifestWithCss
    /\ manifestReads = 0
    /\ manifestUse = NoUse
    /\ manifestCache = EmptyCache
    /\ httpClient = NoClient
    /\ process = "running"
    /\ session = EmptyMap
    /\ adapters = [i \in Adapters |-> IdleAdapter]
    /\ flashed = <<>>
    /\ \E props \in ResolveMaps, req \in ResolveRequests : resolve = ResolveStart(props, req)
    /\ mount = NoMount

NextResolve == ResolveBuild

SpecResolve == InitResolve /\ [][NextResolve]_vars

\* ================================================================ properties
\* What the properties read off an adapter record a.

\* the request was answered or failed, and render was the handler's last call
Rendered(a) == a.pc = "done" /\ a.renders > 0

IsClassicHtml(o) ==
    o.kind = "html" /\ \E n \in DOMAIN o.body : o.body[n].tag = "div"

\* the page JSON of the mount element of a classic response
MountData(o) ==
    LET n == CHOOSE n \in DOMAIN o.body : o.body[n].tag = "div" IN o.body[n].data_page

\* the page objects a render has sent out: in its JSON response, in the mount
\* element of its classic response, in its POST to the render service
Pages(a) ==
    (IF a.outcome.kind = "json" THEN {a.outcome.content} ELSE {})
    \cup (IF IsClassicHtml(a.outcome) THEN {MountData(a.outcome).json_text_of} ELSE {})
    \cup {a.posts[n].json : n \in DOMAIN a.posts}

\* the partial-key list of the request
KeyList(a) == Range(PartialKeys(a.request))

\* partial as the spec defines it: both headers present, the component named
BothHeadersMatch(a) ==
    /\ a.request.x_inertia_partial_data.has
    /\ a.request.x_inertia_partial_component.has
    /\ a.request.x_inertia_partial_component.val = a.component

\* partial as the adapter classifies it: an absent partial-component header
\* reads as the empty name
TreatedAsPartial(a) ==
    /\ a.request.x_inertia_partial_data.has
    /\ (IF a.request.x_inertia_partial_component.has
        THEN a.request.x_inertia_partial_component.val ELSE "") = a.component

NonLazyKeys(a) == {k \in DOMAIN a.props : a.props[k].kind # "lazy"}

\* the prop keys and the page object the claims expect of a render
ExpectedKeys(a) ==
    IF TreatedAsPartial(a) THEN (DOMAIN a.props) \cap KeyList(a) ELSE NonLazyKeys(a)

\* the value a prop is sent as: a model as the mapping of its fields
SentValue(v) == IF v.kind = "model" THEN [jt |-> "map", v |-> v.val] ELSE v.val

ExpectedPage(a) ==
    [ component |-> a.component,
      props |-> [k \in ExpectedKeys(a) |-> SentValue(a.props[k])],
      url |-> a.request.url,
      version |-> cfg.version ]

HasScriptFor(o, js) ==
    \E n \in DOMAIN o.body :
        o.body[n].tag = "script" /\ o.body[n].type = "module" /\ o.body[n].src = js

HasLinkFor(o, css) ==
    \E n \in DOMAIN o.head :
        o.head[n].tag = "link" /\ o.head[n].rel = "stylesheet" /\ o.head[n].href = css

\* a status-200 text/html response on the classic path, for adapter a
IsClassicResponseOf(a) ==
    /\ a.outcome.kind = "html"
    /\ a.outcome.status = 200
    /\ a.outcome.media_type = "text/html"
    /\ HasScriptFor(a.outcome, a.inertia_files.js_file)
    /\ \A n \in DOMAIN a.inertia_files.css_files :
            HasLinkFor(a.outcome, a.inertia_files.css_files[n])
    /\ IsClassicHtml(a.outcome)
    /\ MountData(a.outcome) = [json_text_of |-> ExpectedPage(a)]

\* the render service was called and the call failed
ServiceCallFailed(a) ==
    /\ a.posts # <<>>
    /\ a.pc = "done"
    /\ \/ a.reply.raises
       \/ a.reply.status # 200
       \/ ~({"head", "body"} \subseteq DOMAIN a.reply.json)

\* a producer of an included prop raises at a build that n builds precede
IncludedProducerRaises(a, n) ==
    \E k \in ExpectedKeys(a) :
        a.props[k].kind = "raising" \/ (a.props[k].kind = "flaky" /\ n = 0)

\* the version header is present and differs from the configured version
VersionMismatch(a) ==
    a.request.x_inertia_version.has /\ a.request.x_inertia_version.val # cfg.version

IsVersionConflict(o) ==
    o.kind = "raised" /\ o.error = "InertiaVersionConflictException"

\* asset resolution succeeds for the configuration and the manifest on disk
AssetsResolve ==
    \/ ~(cfg.environment = "production" \/ cfg.ssr_enabled)
    \/ /\ manifestFile.readable
       /\ "src/main.js" \in DOMAIN manifestFile.content
       /\ cfg.has_assets_prefix

\* ---------------------------------------------------------------------- C1
\* C1: every render on a request carrying X-Inertia contacts no render
\* service and renders no template, whether or not SSR is enabled, and the
\* response it returns is the JSON response: status 200, headers X-Inertia:
\* true and Vary: Accept, body {component, props, url, version}.  (render
\* returns no response only when the producer of an included prop raises.)
C1_ProtocolRequestGetsJson ==
    \A i \in DOMAIN adapters :
        LET a == adapters[i] IN
        (a.renders > 0 /\ a.request.x_inertia.has) =>
            /\ a.pc = "done"
            /\ a.posts = <<>>
            /\ a.templates = 0
            /\ IF IncludedProducerRaises(a, 0)
               THEN a.outcome = [kind |-> "raised", error |-> "ProducerError"]
               ELSE /\ a.outcome.kind = "json"
                    /\ a.outcome.status = 200
                    /\ a.outcome.headers.X_Inertia = "true"
                    /\ a.outcome.headers.Vary = "Accept"
                    /\ DOMAIN a.outcome.content = {"component", "props", "url", "version"}
                    /\ a.outcome.content = ExpectedPage(a)

\* a JSON response with props, given under an SSR-enabled configuration
C1_Witness ==
    \E i \in DOMAIN adapters :
        /\ cfg.ssr_enabled
        /\ adapters[i].outcome.kind = "json"
        /\ DOMAIN adapters[i].outcome.content.props # {}

\* ---------------------------------------------------------------------- C2
\* C2: when the call to the render service fails (the POST raises, the status
\* is not a success, the reply lacks head or body), render returns the
\* classic status-200 text/html response: the script tag of the resolved JS
\* asset, a stylesheet link per resolved CSS asset, and the mount element
\* whose page JSON is the page object; nothing is raised.
C2_FailedServiceCallFallsBack ==
    \A i \in DOMAIN adapters :
        ServiceCallFailed(adapters[i]) => IsClassicResponseOf(adapters[i])

\* a fallback after a non-success status, with a CSS asset to link
C2_Witness ==
    \E i \in DOMAIN adapters :
        /\ ServiceCallFailed(adapters[i])
        /\ adapters[i].reply.status = 500
        /\ adapters[i].inertia_files.css_files # <<>>
        /\ IsClassicResponseOf(adapters[i])

\* ---------------------------------------------------------------------- C3
\* C3, as stated: with SSR enabled and no X-Inertia header, render always
\* returns HTML, whatever fails inside the SSR attempt, a failure while
\* resolving props included.
C3_EverySsrFailureAbsorbed ==
    \A i \in DOMAIN adapters :
        LET a == adapters[i] IN
        (Rendered(a) /\ cfg.ssr_enabled /\ ~a.request.x_inertia.has) =>
            a.outcome.kind = "html"

\* C3, amended: every failure raised inside the SSR attempt is caught and
\* render goes on to the classic path, which builds the page object again.
\* render returns HTML unless that second build raises: a producer that
\* raised in the SSR attempt and raises again leaves render as an error; one
\* that does not raise again yields the classic response, with no POST made.
C3_SsrFailureAbsorbedUnlessRebuildFails ==
    \A i \in DOMAIN adapters :
        LET a == adapters[i] IN
        (Rendered(a) /\ cfg.ssr_enabled /\ ~a.request.x_inertia.has) =>
            /\ IncludedProducerRaises(a, 1) =>
                    /\ a.outcome = [kind |-> "raised", error |-> "ProducerError"]
                    /\ a.builds = 2
                    /\ a.posts = <<>>
            /\ ~IncludedProducerRaises(a, 1) => a.outcome.kind = "html"
            /\ (IncludedProducerRaises(a, 0) /\ ~IncludedProducerRaises(a, 1)) =>
                    /\ IsClassicResponseOf(a)
                    /\ a.builds = 2
                    /\ a.posts = <<>>

\* a prop failure inside the SSR attempt that the classic path does not meet again
C3_Witness ==
    \E i \in DOMAIN adapters :
        LET a == adapters[i] IN
        /\ Rendered(a) /\ cfg.ssr_enabled /\ ~a.request.x_inertia.has
        /\ IncludedProducerRaises(a, 0) /\ ~IncludedProducerRaises(a, 1)
        /\ IsClassicResponseOf(a)

\* ---------------------------------------------------------------------- C4
\* C4: on a partial render the prop keys of every page object sent out are
\* keys(P) /\ K, P the merged prop map and K the partial-key list, and a
\* LazyProp whose key is in K is there with its resolved value.
C4_PartialKeysAreIntersection ==
    \A i \in DOMAIN adapters :
        LET a == adapters[i] IN
        \A page \in Pages(a) :
            TreatedAsPartial(a) =>
                /\ DOMAIN page.props = (DOMAIN a.props) \cap KeyList(a)
                /\ \A k \in (DOMAIN a.props) \cap KeyList(a) :
                        a.props[k].kind = "lazy" => page.props[k] = a.props[k].val

\* a partial render that keeps a LazyProp named by K and drops a key outside K
C4_Witness ==
    \E i \in DOMAIN adapters :
        LET a == adapters[i] IN
        \E page \in Pages(a) :
            /\ TreatedAsPartial(a)
            /\ \E k \in DOMAIN page.props : a.props[k].kind = "lazy"
            /\ (DOMAIN a.props) \ KeyList(a) # {}

\* ---------------------------------------------------------------------- C5
\* C5: on a non-partial render (partial-data absent, or partial-component,
\* read as the empty name when absent, other than the component) every page
\* object sent out holds no key whose value in the merged prop map is a
\* LazyProp, and holds every other key.
C5_FullRenderDropsLazy ==
    \A i \in DOMAIN adapters :
        LET a == adapters[i] IN
        \A page \in Pages(a) :
            ~TreatedAsPartial(a) =>
                DOMAIN page.props = {k \in DOMAIN a.props : a.props[k].kind # "lazy"}

\* a full render whose merged map holds a LazyProp and another prop
C5_Witness ==
    \E i \in DOMAIN adapters :
        LET a == adapters[i] IN
        \E page \in Pages(a) :
            /\ ~TreatedAsPartial(a)
            /\ \E k \in DOMAIN a.props : a.props[k].kind = "lazy"
            /\ DOMAIN page.props # {}

\* ---------------------------------------------------------------------- C6
\* C6, as stated: a render is partial iff X-Inertia-Partial-Data is present
\* and X-Inertia-Partial-Component is present and names the component; in
\* every other case it is a full render: all non-lazy props, the partial keys
\* ignored.
C6_PartialIffBothHeadersMatch ==
    \A i \in DOMAIN adapters :
        LET a == adapters[i] IN
        \A page \in Pages(a) :
            DOMAIN page.props =
                IF BothHeadersMatch(a) THEN (DOMAIN a.props) \cap KeyList(a)
                ELSE NonLazyKeys(a)

\* C6, amended: a render is partial iff X-Inertia-Partial-Data is present and
\* X-Inertia-Partial-Component, read as the empty string when it is absent,
\* equals the component name.  With partial-data present and
\* partial-component naming another component the render is full; with
\* partial-component absent it is full unless the component name is empty.
C6_PartialIffDataAndComponentOrEmpty ==
    \A i \in DOMAIN adapters :
        LET a == adapters[i]
            pd == a.request.x_inertia_partial_data
            pcomp == a.request.x_inertia_partial_component
            partial == pd.has /\ ( \/ (pcomp.has /\ pcomp.val = a.component)
                                   \/ (~pcomp.has /\ a.component = "") )
        IN  \A page \in Pages(a) :
                DOMAIN page.props =
                    IF partial THEN (DOMAIN a.props) \cap KeyList(a) ELSE NonLazyKeys(a)

\* partial-data present, another component named: a full render that sends a
\* key the partial-key list does not name
C6_Witness ==
    \E i \in DOMAIN adapters :
        LET a == adapters[i] IN
        \E page \in Pages(a) :
            /\ a.request.x_inertia_partial_data.has
            /\ a.request.x_inertia_partial_component.has
            /\ a.request.x_inertia_partial_component.val # a.component
            /\ (DOMAIN page.props) \ KeyList(a) # {}

\* ---------------------------------------------------------------------- C7
\* C7: with flash messages (flash errors) enabled, every page object a render
\* sends out holds the flash message key (the flash error key), whatever the
\* partial-key list names.
C7_FlashKeysAlwaysPresent ==
    \A i \in DOMAIN adapters :
        \A page \in Pages(adapters[i]) :
            /\ cfg.use_flash_messages => cfg.flash_message_key \in DOMAIN page.props
            /\ cfg.use_flash_errors => cfg.flash_error_key \in DOMAIN page.props

\* ---------------------------------------------------------------------- C8
\* C8: with flash messages enabled, a render whose merged prop map holds the
\* popped messages under the configured key sends them out: every page object
\* it sends holds, under that key, exactly the messages flashed since the last
\* pop, each once and in call order (none if there was no flash call), and the
\* session holds no message afterwards.
C8_FlashedMessagesDeliveredOnce ==
    \A i \in DOMAIN adapters :
        LET a == adapters[i]
            key == cfg.flash_message_key
        IN  (Rendered(a) /\ cfg.use_flash_messages) =>
                /\ "_messages" \notin DOMAIN session
                /\ (key \in DOMAIN a.props /\ a.props[key].val = JList(a.pending)) =>
                        \A page \in Pages(a) :
                            /\ key \in DOMAIN page.props
                            /\ page.props[key] = JList(a.pending)

\* ---------------------------------------------------------------------- C9
\* C9, as stated, on configurations that carry assets_prefix: construction
\* fails with the version conflict, carrying the requested URL, iff the
\* X-Inertia-Version header is present and differs from the configured
\* version.
C9_ConflictIffVersionDiffers ==
    \A i \in DOMAIN adapters :
        LET a == adapters[i] IN
        (a.pc # "idle" /\ cfg.has_assets_prefix) =>
            /\ IsVersionConflict(a.outcome) <=> VersionMismatch(a)
            /\ IsVersionConflict(a.outcome) => a.outcome.url = a.request.url

\* C9, amended: construction fails with the version conflict, carrying the
\* requested URL, iff the X-Inertia-Version header is present, differs from
\* the configured version, and asset resolution succeeded (assets are resolved
\* first and their failure is what construction fails with); with the header
\* equal or absent and the assets resolving, construction succeeds.
C9_ConflictIffVersionDiffersAndAssetsResolve ==
    \A i \in DOMAIN adapters :
        LET a == adapters[i] IN
        a.pc # "idle" =>
            /\ IsVersionConflict(a.outcome) <=> (VersionMismatch(a) /\ AssetsResolve)
            /\ IsVersionConflict(a.outcome) => a.outcome.url = a.request.url
            /\ a.constructed <=> (~VersionMismatch(a) /\ AssetsResolve)
            /\ ~AssetsResolve =>
                    /\ a.outcome.kind = "raised"
                    /\ a.outcome.error \in {"ManifestReadError", "KeyError", "AttributeError"}

\* a version conflict raised in bundled mode, after the assets resolved
C9_Witness ==
    \E i \in DOMAIN adapters :
        /\ IsVersionConflict(adapters[i].outcome)
        /\ adapters[i].outcome.url = adapters[i].request.url
        /\ cfg.environment = "production"
        /\ adapters[i].inertia_files.js_file = "/custom-prefix/assets/main-aBc123.js"

\* --------------------------------------------------------------------- C10
\* C10: a request whose version header mismatches never gets an adapter: no
\* share, flash or render of it executes, it pops nothing from the session, it
\* makes no POST to the render service, and no response of a handler
\* operation is its outcome.
C10_StaleRequestRunsNoHandlerStep ==
    \A i \in DOMAIN adapters :
        LET a == adapters[i] IN
        (a.pc # "idle" /\ VersionMismatch(a)) =>
            /\ a.pc = "done"
            /\ ~a.constructed
            /\ a.shares = 0 /\ a.flashes = 0 /\ a.renders = 0
            /\ a.builds = 0 /\ a.templates = 0
            /\ ~a.popped
            /\ a.posts = <<>>
            /\ a.props = EmptyMap
            /\ a.outcome.kind = "raised"

\* a stale request under SSR and flash, refused while the session holds
\* flashed messages and stored errors
C10_Witness ==
    \E i \in DOMAIN adapters :
        /\ adapters[i].pc = "done"
        /\ VersionMismatch(adapters[i])
        /\ IsVersionConflict(adapters[i].outcome)
        /\ cfg.ssr_enabled /\ cfg.use_flash_messages /\ cfg.use_flash_errors
        /\ "_messages" \in DOMAIN session
        /\ "_errors" \in DOMAIN session

\* --------------------------------------------------------------------- C11
\* C11: a render call whose prop resolution succeeds makes exactly one POST,
\* to {ssr_url}/render with header Content-Type: application/json and this
\* render's page object as its body, when the request carries no X-Inertia
\* header and SSR is enabled; it makes no POST otherwise; whatever the reply,
\* the POST is not repeated.
C11_OnePostPerSsrRender ==
    \A i \in DOMAIN adapters :
        LET a == adapters[i] IN
        /\ Len(a.posts) <= 1
        /\ (a.renders > 0 /\ ~IncludedProducerRaises(a, 0)) =>
                IF ~a.request.x_inertia.has /\ cfg.ssr_enabled
                THEN a.posts = << [ url |-> cfg.ssr_url \o "/render",
                                    json |-> ExpectedPage(a),
                                    headers |-> [Content_Type |-> "application/json"] ] >>
                ELSE a.posts = <<>>
        /\ (a.request.x_inertia.has \/ ~cfg.ssr_enabled) => a.posts = <<>>

\* a render that ended after its one POST raised
C11_Witness ==
    \E i \in DOMAIN adapters :
        LET a == adapters[i] IN
        /\ Rendered(a)
        /\ a.reply.raises
        /\ Len(a.posts) = 1
        /\ a.posts[1].url = "http://localhost:13714/render"
        /\ DOMAIN a.posts[1].json.props # {}

\* --------------------------------------------------------------------- C12
\* C12: with SSR disabled, a render on a request without X-Inertia goes
\* straight to the classic path: no POST, one build of the page data, and a
\* status-200 text/html response with the module script tag of the resolved
\* JS asset, a stylesheet link per resolved CSS asset and the div#app mount
\* element whose data-page is the JSON of this render's page object; a
\* BaseModel prop is there as the mapping of its fields.  (render returns no
\* response only when the producer of an included prop raises.)
C12_NoSsrGoesClassic ==
    \A i \in DOMAIN adapters :
        LET a == adapters[i] IN
        (a.renders > 0 /\ ~cfg.ssr_enabled /\ ~a.request.x_inertia.has) =>
            /\ a.pc = "done"
            /\ a.posts = <<>>
            /\ a.builds = 1
            /\ IF IncludedProducerRaises(a, 0)
               THEN a.outcome = [kind |-> "raised", error |-> "ProducerError"]
               ELSE /\ IsClassicResponseOf(a)
                    /\ a.templates = 1
                    /\ \A k \in ExpectedKeys(a) :
                            a.props[k].kind = "model" =>
                                MountData(a.outcome).json_text_of.props[k]
                                    = [jt |-> "map", v |-> a.props[k].val]

\* a classic response in production without SSR, a BaseModel among its props
C12_Witness ==
    \E i \in DOMAIN adapters :
        LET a == adapters[i] IN
        /\ ~cfg.ssr_enabled /\ cfg.environment = "production"
        /\ IsClassicResponseOf(a)
        /\ a.inertia_files.css_files # <<>>
        /\ \E k \in DOMAIN MountData(a.outcome).json_text_of.props : a.props[k].kind = "model"

\* --------------------------------------------------------------------- C13
\* C13: with SSR enabled, no X-Inertia header and a successful reply {head,
\* body} of the render service, render returns a status-200 text/html
\* response that holds the returned head items (joined by newlines) and the
\* returned body markup unchanged, the script tag of the resolved JS asset and
\* a stylesheet link per resolved CSS asset, and no mount element.
C13_SsrReplyIsSpliced ==
    \A i \in DOMAIN adapters :
        LET a == adapters[i]
            o == a.outcome
        IN  ( /\ Rendered(a) /\ cfg.ssr_enabled /\ ~a.request.x_inertia.has
              /\ a.posts # <<>>
              /\ ~a.reply.raises /\ a.reply.status = 200
              /\ {"head", "body"} \subseteq DOMAIN a.reply.json ) =>
            /\ o.kind = "html" /\ o.status = 200 /\ o.media_type = "text/html"
            /\ \E n \in DOMAIN o.head :
                    o.head[n] = [tag |-> "markup", text |-> JoinLines(a.reply.json.head)]
            /\ \E n \in DOMAIN o.body :
                    o.body[n] = [tag |-> "markup", text |-> a.reply.json.body]
            /\ HasScriptFor(o, a.inertia_files.js_file)
            /\ \A n \in DOMAIN a.inertia_files.css_files :
                    HasLinkFor(o, a.inertia_files.css_files[n])
            /\ \A n \in DOMAIN o.body : o.body[n].tag # "div"
            /\ a.builds = 1 /\ a.templates = 1

\* a server-rendered page with two head items and a CSS asset
C13_Witness ==
    \E i \in DOMAIN adapters :
        LET a == adapters[i] IN
        /\ Rendered(a) /\ a.posts # <<>>
        /\ ~a.reply.raises /\ a.reply.status = 200
        /\ {"head", "body"} \subseteq DOMAIN a.reply.json
        /\ Len(a.reply.json.head) = 2
        /\ a.inertia_files.css_files # <<>>
        /\ a.outcome.kind = "html"
        /\ \E n \in DOMAIN a.outcome.head :
                a.outcome.head[n] = [tag |-> "markup", text |-> "<title>Index</title>\n<meta name=ssr>"]

\* --------------------------------------------------------------------- C14
\* C14 (under SpecMount): whatever characters the prop value holds, single
\* and double quotes included, the data-page attribute read back from the
\* rendered mount element decodes, and decodes to the page data it was
\* rendered from.
C14_MountRoundTrips ==
    mount.stage = "loaded" => (mount.loaded.ok /\ mount.loaded.value = mount.value)

\* a value with a double quote and a backslash, and no single quote, is read
\* back as it was
C14_Witness ==
    /\ mount.stage = "loaded"
    /\ mount.value = <<"a", "\"", "\\">>
    /\ mount.loaded = [ok |-> TRUE, value |-> mount.value]

\* --------------------------------------------------------------------- C15
\* C15: a flash call made while flash messages are disabled fails with
\* NotImplementedError and leaves the session as it was; a flash call made
\* while they are enabled puts one {message, category} entry at the end of
\* the session's message sequence (created if absent) and changes no other
\* key of the session and no prop of the adapter.
C15_FlashStep ==
    \A i \in DOMAIN adapters :
        LET a == adapters[i]
            b == adapters'[i]
            held == IF "_messages" \in DOMAIN session THEN session["_messages"] ELSE <<>>
            failed == a.pc = "handler" /\ b.outcome.kind = "raised"
                        /\ b.outcome.error = "NotImplementedError"
            appended == b.flashes = a.flashes + 1
        IN  /\ failed => /\ ~cfg.use_flash_messages
                         /\ session' = session
                         /\ b.flashes = a.flashes
            /\ appended =>
                /\ cfg.use_flash_messages
                /\ DOMAIN session' = DOMAIN session \cup {"_messages"}
                /\ \A k \in DOMAIN session : k # "_messages" => session'[k] = session[k]
                /\ Len(session'["_messages"]) = Len(held) + 1
                /\ SubSeq(session'["_messages"], 1, Len(held)) = held
                /\ \E cat \in Categories :
                        session'["_messages"][Len(held) + 1]
                            = [message |-> MessageNo(Len(held) + 1), category |-> cat]
                /\ b.props = a.props /\ b.pc = a.pc /\ b.outcome = a.outcome
            /\ (~cfg.use_flash_messages /\ "_messages" \notin DOMAIN session)
                    => "_messages" \notin DOMAIN session'

C15_FlashDisabledFailsEnabledAppends == [][C15_FlashStep]_vars

\* a second flash call has put its message behind the first, and the stored
\* errors are still in the session
C15_Witness ==
    /\ cfg.use_flash_messages
    /\ "_messages" \in DOMAIN session /\ "_errors" \in DOMAIN session
    /\ session["_messages"] = << [message |-> "m1", category |-> "info"],
                                 [message |-> "m2", category |-> "info"] >>
    /\ \E i \in DOMAIN adapters : adapters[i].flashes = 2

C17_PrefixedAssetUrls ==
    \A i \in DOMAIN adapters :
        LET a == adapters[i]
            key == cfg.root_directory \o "/" \o cfg.entrypoint_filename
            p == IF cfg.has_assets_prefix THEN cfg.assets_prefix ELSE ""
            Url(file) == IF p = "" THEN "/" \o file ELSE "/" \o p \o "/" \o file
        IN  ( /\ a.pc # "idle"
              /\ cfg.environment = "production" \/ cfg.ssr_enabled
              /\ manifestFile.readable
              /\ key \in DOMAIN manifestFile.content ) =>
            LET chunk == manifestFile.content[key]
                css == IF "css" \in DOMAIN chunk THEN chunk.css ELSE <<>>
            IN  /\ a.inertia_files.js_file = Url(chunk.file)
                /\ a.inertia_files.css_files = [n \in DOMAIN css |-> Url(css[n])]

\* a configuration object that was given an assets_prefix attribute after it
\* was built resolves the prefixed URL
C17_Witness ==
    \E i \in DOMAIN adapters :
        /\ adapters[i].pc = "handler"
        /\ cfg.has_assets_prefix /\ cfg.assets_prefix = "custom-prefix"
        /\ adapters[i].inertia_files =
                [css_files |-> <<>>, js_file |-> "/custom-prefix/assets/main-aBc123.js"]

\* --------------------------------------------------------------------- C18
\* C18: back() returns a redirect to the URL of the request's Referer header,
\* with status 307 when the request method is GET and 303 for every other
\* method.  (Without a Referer header the header lookup raises KeyError.)
C18_BackRedirectsToReferer ==
    \A i \in DOMAIN adapters :
        LET a == adapters[i] IN
        a.back.called =>
            /\ a.pc = "done"
            /\ IF a.back.referer.has
               THEN a.outcome = [ kind |-> "redirect",
                                  url |-> a.back.referer.val,
                                  status |-> IF a.back.method = "GET" THEN 307 ELSE 303 ]
               ELSE a.outcome = [kind |-> "raised", error |-> "KeyError"]

\* a 303 to the Referer of a DELETE request
C18_Witness ==
    \E i \in DOMAIN adapters :
        /\ adapters[i].back.called
        /\ adapters[i].back.method = "DELETE"
        /\ adapters[i].outcome =
                [kind |-> "redirect", url |-> "http://testserver/previous", status |-> 303]

\* --------------------------------------------------------------------- C19
\* the keys render fills with flash data
FlashKeys ==
    (IF cfg.use_flash_messages THEN {cfg.flash_message_key} ELSE {})
    \cup (IF cfg.use_flash_errors THEN {cfg.flash_error_key} ELSE {})

\* a share step of adapter i: one key is set to the value given, whatever an
\* earlier share call had set it to, and every other key is kept
ShareStepSetsKey(i) ==
    LET a == adapters[i]
        b == adapters'[i]
    IN  b.shares = a.shares + 1 =>
            \E s \in ShareInputs :
                /\ DOMAIN b.props = DOMAIN a.props \cup {s[1]}
                /\ b.props[s[1]] = s[2]
                /\ \A k \in DOMAIN a.props : k # s[1] => b.props[k] = a.props[k]

\* C19, as stated: every share call overrides what earlier ones set under its
\* keys, and render(component, props) leaves a merged prop map that gives
\* every key the value of render's props if render supplies it, and otherwise
\* the value the share calls have left.
C19_RenderStepAsStated ==
    \A i \in DOMAIN adapters :
        LET a == adapters[i]
            b == adapters'[i]
        IN  /\ ShareStepSetsKey(i)
            /\ b.renders = a.renders + 1 =>
                \A k \in DOMAIN b.given \cup DOMAIN a.props :
                    /\ k \in DOMAIN b.props
                    /\ b.props[k] = IF k \in DOMAIN b.given THEN b.given[k] ELSE a.props[k]

C19_RenderThenLatestShare == [][C19_RenderStepAsStated]_vars

\* C19, amended: every share call overrides what earlier ones set under its
\* keys, and render(component, props) leaves a merged prop map that gives
\* every key the value of render's props if render supplies it; otherwise, if
\* the key is the flash message key or the flash error key and that flash
\* feature is enabled, the flash data this render popped; otherwise the value
\* the share calls have left.  The map holds no other key.
C19_RenderStepAmended ==
    \A i \in DOMAIN adapters :
        LET a == adapters[i]
            b == adapters'[i]
            held == IF "_messages" \in DOMAIN session THEN session["_messages"] ELSE <<>>
            errors == IF "_errors" \in DOMAIN session THEN session["_errors"] ELSE EmptyMap
        IN  /\ ShareStepSetsKey(i)
            /\ b.renders = a.renders + 1 =>
                /\ DOMAIN b.props = DOMAIN b.given \cup FlashKeys \cup DOMAIN a.props
                /\ \A k \in DOMAIN b.props :
                    b.props[k] =
                        IF k \in DOMAIN b.given THEN b.given[k]
                        ELSE IF k = cfg.flash_error_key /\ cfg.use_flash_errors
                        THEN [kind |-> "value", val |-> [jt |-> "map", v |-> errors]]
                        ELSE IF k = cfg.flash_message_key /\ cfg.use_flash_messages
                        THEN [kind |-> "value", val |-> [jt |-> "list", v |-> held]]
                        ELSE a.props[k]

C19_RenderThenFlashThenLatestShare == [][C19_RenderStepAmended]_vars

\* two share calls, then a render that supplies neither of their keys, flash
\* messages disabled: the merged map holds both shared values
C19_Witness ==
    \E i \in DOMAIN adapters :
        LET a == adapters[i] IN
        /\ a.renders > 0 /\ a.shares = 2 /\ ~cfg.use_flash_messages
        /\ DOMAIN a.given = {"person"}
        /\ DOMAIN a.props = {"a", "messages", "person"} \cup FlashKeys
        /\ a.props["a"] = [kind |-> "lazy", val |-> [jt |-> "str", v |-> "again"]]
        /\ a.props["messages"] = [kind |-> "value", val |-> [jt |-> "str", v |-> "kept"]]

\* --------------------------------------------------------------------- C20
\* C20: the producer of a top-level LazyProp that the payload of a render
\* does not include is not invoked by that render: on a non-partial render no
\* LazyProp producer runs, on a partial render none runs whose key the
\* partial-key list does not name.
C20_ExcludedLazyNotInvoked ==
    \A i \in DOMAIN adapters :
        LET a == adapters[i] IN
        \A k \in DOMAIN a.props :
            (a.props[k].kind = "lazy" /\ k \in a.invoked) =>
                /\ TreatedAsPartial(a)
                /\ k \in KeyList(a)

\* a partial render that sent a page and called the producer of a prop its
\* key list names, but not the LazyProp the list leaves out
C20_Witness ==
    \E i \in DOMAIN adapters :
        LET a == adapters[i] IN
        /\ Rendered(a) /\ TreatedAsPartial(a)
        /\ Pages(a) # {}
        /\ \E k \in DOMAIN a.props :
                a.props[k].kind = "lazy" /\ k \notin KeyList(a) /\ k \notin a.invoked
        /\ a.invoked # {}

\* ---------------------------------------------------------------------- C21
\* C21, as stated: when the X-Inertia-Partial-Data header is absent or has an
\* empty value, the partial-key list is empty, and a render the adapter
\* treats as partial sends out no prop at all: no key, the empty-string key
\* included, is selected by such a header.
C21_AbsentOrEmptyHeaderSelectsNoKey ==
    \A i \in DOMAIN adapters :
        LET a == adapters[i] IN
        (a.renders > 0 /\ HeaderGet(a.request.x_inertia_partial_data, <<>>) = <<>>) =>
            /\ PartialKeys(a.request) = <<>>
            /\ TreatedAsPartial(a) => \A page \in Pages(a) : DOMAIN page.props = {}

\* a partial render on an empty X-Inertia-Partial-Data header has sent out
\* the prop whose key is the empty string
C21_Witness ==
    \E i \in DOMAIN adapters :
        LET a == adapters[i] IN
        /\ Rendered(a)
        /\ a.request.x_inertia_partial_data = PartialData(<<>>)
        /\ TreatedAsPartial(a)
        /\ \E page \in Pages(a) : "" \in DOMAIN page.props

\* ---------------------------------------------------------------------- C22
\* a construction by adapter i happens in this step
ConstructStep(i) == adapters[i].pc = "idle" /\ adapters'[i].pc # "idle"

\* the manifest on disk cannot serve the configured entry point
ManifestUnusable ==
    \/ ~manifestFile.readable
    \/ (cfg.root_directory \o "/" \o cfg.entrypoint_filename) \notin DOMAIN manifestFile.content

\* C22, as stated: the manifest file is opened at most once in the process
\* lifetime, whether the read succeeds or not, and a construction that
\* consults a manifest which cannot be read or lacks the entry fails.
C22_ManifestReadAttemptedOnce ==
    /\ manifestReads <= 1
    /\ \A i \in DOMAIN adapters :
        (adapters[i].consulted /\ ManifestUnusable) =>
            adapters[i].pc = "done" /\ adapters[i].outcome.kind = "raised"

\* C22, amended: a construction that consults the manifest opens the file
\* unless an earlier read of it returned: a read that returned is cached, also
\* when the manifest lacks the entry, and a read that raised is attempted
\* again by every later construction.  Such a construction fails whenever the
\* manifest cannot be read or lacks the entry.
C22_ReadAttemptedUntilOneReturns ==
    [][\A i \in DOMAIN adapters :
        (ConstructStep(i) /\ adapters'[i].consulted) =>
            /\ manifestReads' =
                 IF manifestFile.readable /\ manifestReads > 0
                 THEN manifestReads ELSE manifestReads + 1
            /\ ManifestUnusable =>
                /\ adapters'[i].pc = "done"
                /\ ~adapters'[i].constructed
                /\ adapters'[i].outcome =
                     [kind |-> "raised",
                      error |-> IF manifestFile.readable THEN "KeyError"
                                ELSE "ManifestReadError"]]_vars

\* the manifest cannot be read and a second construction has opened it again
C22_Witness ==
    \E i \in DOMAIN adapters :
        /\ ~manifestFile.readable
        /\ manifestReads = 2
        /\ adapters[i].consulted
        /\ adapters[i].outcome = [kind |-> "raised", error |-> "ManifestReadError"]

\* ---------------------------------------------------------------------- C23
\* the asset URLs a construction resolves from a manifest content, the prefix
\* being empty
FilesFrom(content) ==
    LET chunk == content["src/main.js"]
        css == IF "css" \in DOMAIN chunk THEN chunk.css ELSE <<>>
    IN  [ css_files |-> [n \in DOMAIN css |-> "/" \o css[n]],
          js_file |-> "/" \o chunk.file ]

\* C23, as stated: once the manifest was read, the file is never opened again
\* and every adapter constructed later holds the asset URLs of the content
\* read the first time, however many other paths were read in between and
\* whatever the file has become.
C23_CacheNeverInvalidated ==
    /\ manifestReads <= 1
    /\ \A i \in DOMAIN adapters :
        (adapters[i].consulted /\ adapters[i].constructed) =>
            adapters[i].inertia_files = FilesFrom(manifestUse.content)

\* C23, amended: a construction for a path that was read resolves its assets
\* from the content of the last read, without opening the file, as long as
\* fewer than CacheMaxSize (128) adapters for other paths were constructed
\* since the last construction for this path; from then on the entry is
\* gone, and the construction opens the file and resolves its assets from
\* what the file holds now.
C23_CachedUntilEvicted ==
    [][\A i \in DOMAIN adapters :
        (ConstructStep(i) /\ adapters'[i].consulted /\ manifestFile.readable
            /\ "src/main.js" \in DOMAIN manifestFile.content /\ cfg.has_assets_prefix
            /\ cfg.assets_prefix = "") =>
            IF manifestReads > 0 /\ manifestUse.others < CacheMaxSize
            THEN /\ manifestReads' = manifestReads
                 /\ adapters'[i].inertia_files = FilesFrom(manifestUse.content)
            ELSE /\ manifestReads' = manifestReads + 1
                 /\ adapters'[i].inertia_files = FilesFrom(manifestFile.content)]_vars

\* an adapter holds the asset URLs of the content read first although the
\* file has changed and other paths were read in between
C23_Witness ==
    \E i \in DOMAIN adapters :
        /\ adapters[i].constructed
        /\ manifestReads = 1
        /\ manifestUse.content # manifestFile.content
        /\ Len(manifestCache) > 2
        /\ manifestCache[Len(manifestCache)].path = cfg.manifest_json_path
        /\ adapters[i].inertia_files = FilesFrom(manifestUse.content)
        /\ adapters[i].inertia_files # FilesFrom(manifestFile.content)

\* ---------------------------------------------------------------------- C24
\* render has taken the branch of adapter a that calls _render_ssr
AttemptedSsr(a) == a.renders > 0 /\ ~a.request.x_inertia.has /\ cfg.ssr_enabled

\* C24: whatever the interleaving of the requests, at most one AsyncClient is
\* ever made; none exists before a render has attempted SSR (constructing
\* adapters, sharing, flashing and JSON renders make none); and every render
\* that attempts SSR is given that one client.
C24_OneSharedClient ==
    /\ httpClient.id <= 1
    /\ httpClient.id = 1 <=> \E i \in DOMAIN adapters : AttemptedSsr(adapters[i])
    /\ \A i \in DOMAIN adapters :
        adapters[i].client = IF AttemptedSsr(adapters[i]) THEN 1 ELSE 0

\* two renders wait for the render service at the same time, on one client
C24_Witness ==
    /\ httpClient.id = 1
    /\ \A i \in DOMAIN adapters :
        adapters[i].pc = "ssr_wait" /\ adapters[i].client = httpClient.id
    /\ Cardinality(DOMAIN adapters) = 2

\* ---------------------------------------------------------------------- C25
\* C25, as stated: once the process has shut down, a client that was made is
\* closed: the hook registered when it was made has closed it.
C25_ClientClosedAtShutdown ==
    (process = "exited" /\ httpClient.id # 0) => httpClient.closed

\* the process has shut down with the hook registered, and the client it was
\* to close is open
C25_Witness ==
    /\ process = "exited"
    /\ httpClient.id # 0
    /\ httpClient.atexit
    /\ ~httpClient.closed

\* ---------------------------------------------------------------------- C26
\* a step of adapter i in which the page data is built
BuildStep(i) == adapters'[i].builds > adapters[i].builds

\* C26: a step that builds the page data leaves every object the callers
\* passed as it was.  At the step of the render call, the adapter holds each
\* value of the props argument, and each shared value that neither the
\* argument nor a flash key replaces, as it was passed: no key of a nested
\* mapping is gone, no producer in it is replaced by its result.  At a later
\* build of the same render the adapter's prop map does not change at all.
C26_ResolutionLeavesCallerValues ==
    [][\A i \in DOMAIN adapters :
        BuildStep(i) =>
            LET a == adapters[i]
                b == adapters'[i]
            IN  IF b.renders > a.renders
                THEN /\ \A k \in DOMAIN b.given : b.props[k] = b.given[k]
                     /\ \A k \in (DOMAIN a.props) \ (DOMAIN b.given \cup FlashKeys) :
                            b.props[k] = a.props[k]
                ELSE b.props = a.props]_vars

\* a render was given a mapping nested two deep with a LazyProp inside: the
\* payload holds the resolved values, the adapter the mapping as passed
C26_Witness ==
    \E i \in DOMAIN adapters :
        LET a == adapters[i] IN
        /\ Rendered(a)
        /\ "user" \in DOMAIN a.given
        /\ a.given["user"] = Settings
        /\ a.props["user"] = Settings
        /\ a.builds = 2
        /\ \A page \in Pages(a) :
            /\ "user" \in DOMAIN page.props
            /\ page.props["user"] =
                 JMap([k \in {"account", "theme"} |->
                        IF k = "theme" THEN JStr("dark")
                        ELSE JMap([x \in {"name", "posts"} |->
                                    IF x = "name" THEN JStr("Ann") ELSE JStr("p1")])])

\* ---------------------------------------------------------------------- C27
\* the asset URLs resolved under the configuration of SpecTwo
TwoFiles ==
    IF cfg.ssr_enabled
    THEN [css_files |-> <<"/assets/main-xYz789.css">>, js_file |-> "/assets/main-aBc123.js"]
    ELSE [css_files |-> <<>>, js_file |-> "http://localhost:5173/src/main.js"]

\* C27: whatever the interleaving of the calls on two adapters, a call on one
\* adapter changes nothing of the other, and what an adapter holds and sends
\* out comes from its own request and its own handler alone: its props (flash
\* key apart) are the values its handler shared or passed, its component is
\* the one its handler rendered, its assets are those resolved at its
\* construction, and every page object it sends out carries them.
C27_AdaptersShareNoRequestState ==
    [][\A i \in DOMAIN adapters :
        LET b == adapters'[i] IN
        /\ adapters'[i] # adapters[i] =>
                \A j \in (DOMAIN adapters) \ {i} : adapters'[j] = adapters[j]
        /\ \A k \in (DOMAIN b.props) \ FlashKeys : b.props[k] = Plain(i)
        /\ DOMAIN b.props \subseteq
                (IF b.shares > 0 THEN {"a"} ELSE {}) \cup DOMAIN b.given \cup
                (IF b.renders > 0 THEN FlashKeys ELSE {})
        /\ b.component = (IF b.renders > 0 THEN ComponentOf(i) ELSE "")
        /\ b.inertia_files = (IF b.pc = "idle" THEN NoFiles ELSE TwoFiles)
        /\ \A page \in Pages(b) :
            /\ page.component = ComponentOf(i)
            /\ page.url = UrlOf(i)
            /\ \A k \in (DOMAIN page.props) \ FlashKeys : page.props[k] = JStr(i)]_vars

\* both adapters have shared and rendered with props, and each has sent out
\* its own
C27_Witness ==
    /\ Cardinality(DOMAIN adapters) = 2
    /\ \A i \in DOMAIN adapters :
        LET a == adapters[i] IN
        /\ Rendered(a)
        /\ a.shares > 0
        /\ DOMAIN a.given = {"b"}
        /\ \E page \in Pages(a) :
            /\ page.component = ComponentOf(i)
            /\ page.props["a"] = JStr(i)
            /\ page.props["b"] = JStr(i)

\* ---------------------------------------------------------------------- C28
\* the flashed messages a render of adapter a has sent out in a payload
DeliveredBy(a) ==
    UNION { Range(page.props[cfg.flash_message_key].v) :
                page \in {p \in Pages(a) : cfg.flash_message_key \in DOMAIN p.props} }

\* the messages the session holds
HeldMessages == IF "_messages" \in DOMAIN session THEN Range(session["_messages"]) ELSE {}

\* C28: whatever the interleaving of the renders of two requests on one
\* session store, no flashed message is in the payloads of two renders, none
\* is twice in the payload of one, and none that a render has sent out is
\* held by the session still.
C28_NoMessageDeliveredTwice ==
    \A i \in DOMAIN adapters :
        LET a == adapters[i] IN
        /\ \A j \in (DOMAIN adapters) \ {i} : DeliveredBy(a) \cap DeliveredBy(adapters[j]) = {}
        /\ \A page \in Pages(a) :
            cfg.flash_message_key \in DOMAIN page.props =>
                LET list == page.props[cfg.flash_message_key].v IN
                \A m, n \in DOMAIN list : list[m] = list[n] => m = n
        /\ DeliveredBy(a) \cap HeldMessages = {}

\* both requests flashed; the render of one has sent out the messages of
\* both, and the render of the other, which came later, none
C28_Witness ==
    \E i, j \in DOMAIN adapters :
        /\ i # j
        /\ Rendered(adapters[i]) /\ Rendered(adapters[j])
        /\ adapters[i].flashes > 0 /\ adapters[j].flashes > 0
        /\ Cardinality(DeliveredBy(adapters[i])) = 2
        /\ Pages(adapters[j]) # {}
        /\ DeliveredBy(adapters[j]) = {}

\* ---------------------------------------------------------------------- C29
\* a render call of adapter i happens in this step
RenderStep(i) == adapters'[i].renders > adapters[i].renders

\* C29: at a render call under a configuration with flash messages enabled,
\* the session's messages are popped whatever the props are, and the value
\* the adapter holds under the flash key afterwards is the one passed to
\* render under that key if there is one, and the list of the popped messages
\* otherwise, whatever was shared under the key; every page object the call
\* sends out with the key carries that value.  So when render is passed the
\* flash key, the popped messages are in no payload and in the session no
\* longer.
C29_SharedThenFlashThenRenderProps ==
    [][\A i \in DOMAIN adapters :
        (RenderStep(i) /\ cfg.use_flash_messages) =>
            LET b == adapters'[i]
                key == cfg.flash_message_key
                held == IF "_messages" \in DOMAIN session THEN session["_messages"] ELSE <<>>
                expected == IF key \in DOMAIN b.given THEN b.given[key].val ELSE JList(held)
            IN  /\ "_messages" \notin DOMAIN session'
                /\ key \in DOMAIN b.props
                /\ b.props[key].kind \in {"value", "lazy"}
                /\ b.props[key].val = expected
                /\ \A page \in Pages(b) :
                        key \in DOMAIN page.props => page.props[key] = expected]_vars

\* messages were held and a value was shared under the flash key when render
\* was passed that key: the payload carries render's value, the session no
\* message
C29_Witness ==
    \E i \in DOMAIN adapters :
        LET a == adapters[i] IN
        /\ Rendered(a)
        /\ cfg.use_flash_messages
        /\ a.shares > 0
        /\ a.pending # <<>>
        /\ cfg.flash_message_key \in DOMAIN a.given
        /\ "_messages" \notin DOMAIN session
        /\ \E page \in Pages(a) : page.props[cfg.flash_message_key] = JStr("mine")

\* ---------------------------------------------------------------------- C30
\* how often the callable under key k was called in the render of adapter a
CallsOf(a, k) == IF k \in DOMAIN a.calls THEN a.calls[k] ELSE 0

\* C30: in a render whose included producers all return, the producer under
\* an included key is called once when the response is the JSON response,
\* the SSR page, or the classic page under a configuration without SSR, and
\* twice when the call to the render service failed and the classic page was
\* built after it; a value that is no producer, or is left out, is never
\* called.
C30_ProducerCallsPerRender ==
    \A i \in DOMAIN adapters :
        LET a == adapters[i] IN
        (Rendered(a) /\ ~IncludedProducerRaises(a, 0)) =>
            /\ a.outcome.kind \in {"json", "html"}
            /\ a.builds = (IF ServiceCallFailed(a) THEN 2 ELSE 1)
            /\ \A k \in DOMAIN a.props :
                CallsOf(a, k) =
                    IF k \in ExpectedKeys(a) /\ a.props[k].kind \in {"lazy", "flaky", "raising"}
                    THEN (IF ServiceCallFailed(a) THEN 2 ELSE 1)
                    ELSE 0

\* the render service failed on a partial render that includes a LazyProp:
\* the classic page is out and the producer was called twice
C30_Witness ==
    \E i \in DOMAIN adapters :
        LET a == adapters[i] IN
        /\ Rendered(a)
        /\ ServiceCallFailed(a)
        /\ IsClassicHtml(a.outcome)
        /\ "a" \in DOMAIN a.props
        /\ a.props["a"].kind = "lazy"
        /\ CallsOf(a, "a") = 2

\* ---------------------------------------------------------------------- C31
\* C31: under a configuration that takes its assets from the manifest, the
\* construction for a request whose version header mismatches fails with the
\* failure of the asset resolution (the read error, or the KeyError of the
\* missing entry) whenever the manifest cannot be read or lacks the entry,
\* and holds no asset then; a construction ends in the version conflict only
\* after it consulted the manifest and resolved its assets.
C31_AssetFailureBeforeVersionConflict ==
    \A i \in DOMAIN adapters :
        LET a == adapters[i] IN
        (a.pc # "idle" /\ (cfg.environment = "production" \/ cfg.ssr_enabled)) =>
            /\ (VersionMismatch(a) /\ ManifestUnusable) =>
                /\ a.pc = "done"
                /\ a.outcome =
                     [kind |-> "raised",
                      error |-> IF manifestFile.readable THEN "KeyError"
                                ELSE "ManifestReadError"]
                /\ a.inertia_files = NoFiles
            /\ IsVersionConflict(a.outcome) =>
                /\ a.consulted
                /\ AssetsResolve
                /\ a.inertia_files.js_file # ""

\* a stale request met a manifest without the entry: the KeyError is what the
\* construction raised
C31_Witness ==
    \E i \in DOMAIN adapters :
        LET a == adapters[i] IN
        /\ VersionMismatch(a)
        /\ manifestFile.readable
        /\ ManifestUnusable
        /\ a.consulted
        /\ a.outcome = [kind |-> "raised", error |-> "KeyError"]

\* ---------------------------------------------------------------------- C32
\* what the dict Nested(d) is sent as when every callable in it was called
RECURSIVE ResolvedNest(_)
ResolvedNest(d) ==
    IF d = 0 THEN JStr("deep")
    ELSE JMap([k \in {"in", "fn"} |-> IF k = "in" THEN ResolvedNest(d - 1) ELSE JStr("f")])

\* <<"user", "in", ..., "in">>, with n times "in"
RECURSIVE DownTo(_)
DownTo(n) == IF n = 0 THEN <<"user">> ELSE Append(DownTo(n - 1), "in")

\* an object that was not called
Uncalled(v) == [jt |-> "object", v |-> v]

\* C32: of the page data _build_props returns.  On a full render the keys
\* left out are those whose own value is a LazyProp, and no other.  Under a
\* key that is sent, a dict is resolved at every depth: each function and
\* each LazyProp in it was called, the LazyProp at the bottom included, and
\* its result is in the payload.  A list is sent as it is: no callable in it,
\* nor in a dict inside it, was called.  What a called function returned is
\* sent as it is: no callable in it was called.
C32_ResolutionDescendsMappingsOnly ==
    resolve.stage = "built" =>
        LET p == resolve.props
            out == resolve.payload
            called == resolve.paths
        IN  /\ ~resolve.request.x_inertia_partial_data.has =>
                    DOMAIN out = {k \in DOMAIN p : p[k].kind # "lazy"}
            /\ "user" \in DOMAIN out =>
                    LET d == CHOOSE d \in 1..MaxNest : p["user"] = Nested(d) IN
                    /\ out["user"] = ResolvedNest(d)
                    /\ {path \in called : Head(path) = "user"} =
                         {DownTo(d)} \cup
                         {Append(DownTo(n), "fn") : n \in 0..(d - 1)}
            /\ "items" \in DOMAIN out =>
                    /\ {path \in called : Head(path) = "items"} = {}
                    /\ out["items"].jt = "list"
                    /\ \A n \in DOMAIN p["items"].val :
                        LET item == p["items"].val[n] IN
                        /\ item.kind = "lazy" => out["items"].v[n] = Uncalled(item)
                        /\ item.kind = "value" => out["items"].v[n] = item.val
                        /\ item.kind = "dict" =>
                                out["items"].v[n] = JMap([k \in {"fn"} |-> Uncalled(Func("g"))])
            /\ "report" \in DOMAIN out =>
                    /\ {path \in called : Head(path) = "report"} = {<<"report">>}
                    /\ p["report"] = Func("plain") => out["report"] = JStr("plain")
                    /\ p["report"] = Returning(Dict([k \in {"fn"} |-> Func("h")])) =>
                            out["report"] = JMap([k \in {"fn"} |-> Uncalled(Func("h"))])
                    /\ p["report"] = Returning(List(<<Func("h")>>)) =>
                            out["report"] = JList(<<Uncalled(Func("h"))>>)

\* a full render of a prop map with a LazyProp of its own, a dict of the
\* greatest depth, a list holding a LazyProp and a function returning a dict
\* that holds a function
C32_Witness ==
    /\ resolve.stage = "built"
    /\ ~resolve.request.x_inertia_partial_data.has
    /\ DOMAIN resolve.props = {"user", "items", "report", "late"}
    /\ DOMAIN resolve.payload = {"user", "items", "report"}
    /\ resolve.props["user"] = Nested(MaxNest)
    /\ resolve.payload["user"] = ResolvedNest(MaxNest)
    /\ DownTo(MaxNest) \in resolve.paths
    /\ resolve.payload["items"] = JList(<<Uncalled(Lazy("q")), JStr("r")>>)
    /\ resolve.payload["report"] = JMap([k \in {"fn"} |-> Uncalled(Func("h"))])

====
